---- MODULE Spec2Model ----
(***************************************************************************)
(* A state-machine model of the drcachesim trace scheduler                 *)
(* (clients/drcachesim/scheduler/scheduler.cpp, scheduler_tmpl_t).         *)
(* Inputs are software-thread traces, outputs are simulated cores.  Each   *)
(* call of stream_t::next_record() on an output is one atomic action: the  *)
(* scheduler serialises the calls with sched_lock_ and the input locks.    *)
(***************************************************************************)
EXTENDS Integers, Sequences, FiniteSets, TLC

\* ------------------------------------------------------------------------
\* Bounds of the exploration.
\* ------------------------------------------------------------------------
NumInputs == 2
NumOutputs == 2
MaxTime == 4


\* ------------------------------------------------------------------------
\* Constants of the source.
\* ------------------------------------------------------------------------
INVALID_INPUT_ORDINAL == -1
INVALID_OUTPUT_ORDINAL == -1
\* A value standing for the top of the uint64_t range: the result of an
\* unsigned subtraction that wraps, and std::numeric_limits<uint64_t>::max().
UINT64_MAX == 1000000

\* Let(v, LAMBDA x : e) is e with x standing for the value v; the value is
\* computed once, as that of a local variable of the source.
Let(v, Body(_)) == Body(v)

\* a - b computed in uint64_t.
USub(a, b) == IF a >= b THEN a - b ELSE UINT64_MAX - (b - a) + 1

\* ------------------------------------------------------------------------
\* Trace records.  k is the record kind, v the marker value (or 0), ord the
\* position of the record in its reader (0 for a record that did not come
\* from a reader).
\* ------------------------------------------------------------------------
INSTR == [k |-> "instr", v |-> 0]
TS(t) == [k |-> "timestamp", v |-> t]
SYSCALL == [k |-> "syscall", v |-> 0]
MAYBE_BLOCKING == [k |-> "maybe_blocking", v |-> 0]
UNSCHEDULE == [k |-> "unschedule", v |-> 0]
SCHEDULE(tid) == [k |-> "schedule", v |-> tid]
DIRECT_SWITCH(tid) == [k |-> "direct_switch", v |-> tid]
ARG_TIMEOUT(t) == [k |-> "arg_timeout", v |-> t]
MARKER == [k |-> "marker", v |-> 0]
CONTEXT_SWITCH_START(type) == [k |-> "context_switch_start", v |-> type]
CONTEXT_SWITCH_END(type) == [k |-> "context_switch_end", v |-> type]
SYSCALL_TRACE_START == [k |-> "syscall_trace_start", v |-> 0]
SYSCALL_TRACE_END == [k |-> "syscall_trace_end", v |-> 0]

InvalidRecord == [k |-> "invalid", v |-> 0, ord |-> 0, input |-> INVALID_INPUT_ORDINAL]

record_type_is_instr(r) == r.k = "instr"
record_type_is_marker(r) == r.k \notin {"instr", "invalid", "thread_exit"}
record_type_is_instr_boundary(r) == record_type_is_instr(r)

\* The thread id of input i.
TidOf(i) == 100 + i

\* create_thread_exit() and create_region_separator_marker(): records that
\* the scheduler makes for input i.
create_thread_exit(i) ==
    [k |-> "thread_exit", v |-> TidOf(i), ord |-> 0, input |-> i]
create_region_separator_marker(i, region) ==
    [k |-> "window_id", v |-> region, ord |-> 0, input |-> i]

\* ------------------------------------------------------------------------
\* Readers.  A reader is a finite sequence of records and a position:
\* position 0 is a reader that has not been initialised, Len+1 is the end.
\* ------------------------------------------------------------------------
\* A slip in the end test: the last record is taken for the end sentinel.
ReaderAtEndEarly(rd, pos) == pos = 0 \/ pos >= Len(rd.recs)

ReaderAtEnd(rd, pos) == pos = 0 \/ pos > Len(rd.recs)

RECURSIVE CountInstrs(_, _)
CountInstrs(recs, n) ==
    IF n = 0 THEN 0
    ELSE CountInstrs(recs, n - 1) + (IF recs[n].k = "instr" THEN 1 ELSE 0)

Min(a, b) == IF a < b THEN a ELSE b

\* reader_t::get_instruction_ordinal()
get_instruction_ordinal(rd, pos) == CountInstrs(rd.recs, Min(pos, Len(rd.recs)))

RECURSIVE LastTimestamp(_, _)
LastTimestamp(recs, n) ==
    IF n = 0 THEN 0
    ELSE IF recs[n].k = "timestamp" THEN recs[n].v
    ELSE LastTimestamp(recs, n - 1)

\* The position of the (n+1)-th instruction at or after position pos, the
\* end of the reader when there is none.
RECURSIVE SkipTo(_, _, _)
SkipTo(recs, pos, n) ==
    IF pos > Len(recs) THEN pos
    ELSE IF recs[pos].k = "instr"
    THEN IF n = 0 THEN pos ELSE SkipTo(recs, pos + 1, n - 1)
    ELSE SkipTo(recs, pos + 1, n)

\* reader_t::skip_instructions() on a trace without timestamps: the next n
\* instructions are passed over and the reader stops on the instruction that
\* follows them (with timestamps it would stop on a copy of the last
\* timestamp, one instruction ordinal earlier).
reader_skip_instructions(rd, pos, n) == SkipTo(rd.recs, pos + 1, n)

\* reader_t::get_last_timestamp()
get_last_timestamp(rd, pos) == LastTimestamp(rd.recs, Min(pos, Len(rd.recs)))

\* ------------------------------------------------------------------------
\* Scheduler state.  The operators below are the functions of
\* scheduler_tmpl_t; each takes the scheduler state s (a record holding the
\* member variables) and returns the state after the call.
\* ------------------------------------------------------------------------
VARIABLES options_, readers, inputs_, outputs_, ready_priority_,
          unscheduled_priority_, ready_counter_, unscheduled_counter_,
          num_blocked_, live_input_count_, live_replay_output_count_,
          wall_clock, hist, calls

vars == <<options_, readers, inputs_, outputs_, ready_priority_,
          unscheduled_priority_, ready_counter_, unscheduled_counter_,
          num_blocked_, live_input_count_, live_replay_output_count_,
          wall_clock, hist, calls>>

\* The inputs and outputs of the scheduler instance.
Inputs == DOMAIN readers
Outputs == DOMAIN outputs_

\* tid2input_: the input of a thread id.
tid2input(tid) == IF (tid - 100) \in Inputs THEN tid - 100 ELSE INVALID_INPUT_ORDINAL

\* The scheduler state as one record.
State == [options_ |-> options_, inputs_ |-> inputs_, outputs_ |-> outputs_,
          ready_priority_ |-> ready_priority_,
          unscheduled_priority_ |-> unscheduled_priority_,
          ready_counter_ |-> ready_counter_,
          unscheduled_counter_ |-> unscheduled_counter_,
          num_blocked_ |-> num_blocked_,
          live_input_count_ |-> live_input_count_,
          live_replay_output_count_ |-> live_replay_output_count_,
          hist |-> hist]

StatNames == {"SWITCH_INPUT_TO_INPUT", "SWITCH_INPUT_TO_IDLE", "SWITCH_IDLE_TO_INPUT",
              "SWITCH_NOP", "QUANTUM_PREEMPTS", "DIRECT_SWITCH_ATTEMPTS",
              "DIRECT_SWITCH_SUCCESSES", "MIGRATIONS"}

\* input_info_t after construction.
NewInput == [pos |-> 0, needs_init |-> TRUE, needs_advance |-> FALSE,
             at_eof |-> FALSE, queue |-> <<>>, cur_from_queue |-> FALSE,
             instrs_pre_read |-> 0, next_timestamp |-> 0,
             instrs_in_quantum |-> 0, time_spent_in_quantum |-> 0,
             prev_time_in_quantum |-> 0,
             processing_syscall |-> FALSE,
             processing_maybe_blocking_syscall |-> FALSE,
             pre_syscall_timestamp |-> 0, syscall_timeout_arg |-> 0,
             priority |-> 0, binding |-> {}, queue_counter |-> 0,
             blocked_time |-> 0, blocked_start_time |-> 0,
             unscheduled |-> FALSE, skip_next_unscheduled |-> FALSE,
             switching_pre_instruction |-> FALSE,
             cur_region |-> 0, in_cur_region |-> FALSE, needs_roi |-> TRUE,
             switch_to_input |-> INVALID_INPUT_ORDINAL,
             prev_output |-> INVALID_OUTPUT_ORDINAL]

\* output_info_t after construction.
NewOutput == [cur_input |-> INVALID_INPUT_ORDINAL,
              prev_input |-> INVALID_INPUT_ORDINAL,
              active |-> TRUE, waiting |-> FALSE, wait_start_time |-> 0,
              at_eof |-> FALSE, cur_time |-> 0,
              in_kernel_code |-> FALSE, in_context_switch_code |-> FALSE,
              hit_switch_code_end |-> FALSE,
              record |-> <<>>, record_index |-> 0,
              input_indices |-> <<>>, input_indices_index |-> 0,
              stats |-> [n \in StatNames |-> 0],
              speculation_stack |-> <<>>, speculate_pc |-> 0,
              prev_speculate_pc |-> 0,
              cur_instr_count_ |-> 0,
              last_record |-> InvalidRecord]

IncStat(s, o, name) == [s EXCEPT !.outputs_[o].stats[name] = @ + 1]

\* get_output_time(): the time the caller passed to the output's last
\* next_record() call.
get_output_time(s, o) == s.outputs_[o].cur_time

\* get_time_micros(): the wall clock.  The callers of the model pass the
\* wall-clock time to next_record(), so the wall clock seen inside a call on
\* output o is that output's current time.
get_time_micros(s, o) == s.outputs_[o].cur_time

\* get_instr_ordinal()
get_instr_ordinal(s, i) ==
    get_instruction_ordinal(readers[i], s.inputs_[i].pos) - s.inputs_[i].instrs_pre_read

\* InputTimestampComparator: a precedes b in a priority queue when it has the
\* higher priority, or the same priority and the smaller queue_counter.
QueueBefore(s, a, b) ==
    \/ s.inputs_[a].priority > s.inputs_[b].priority
    \/ /\ s.inputs_[a].priority = s.inputs_[b].priority
       /\ \/ s.inputs_[a].queue_counter < s.inputs_[b].queue_counter
          \/ /\ s.inputs_[a].queue_counter = s.inputs_[b].queue_counter
             /\ a < b

\* priority_queue top()
QueueTop(s, q) == CHOOSE a \in q : \A b \in q \ {a} : QueueBefore(s, a, b)

ready_queue_empty(s) == s.ready_priority_ = {}

add_to_unscheduled_queue(s, i) ==
    [s EXCEPT !.unscheduled_counter_ = @ + 1,
              !.inputs_[i].queue_counter = s.unscheduled_counter_ + 1,
              !.unscheduled_priority_ = @ \cup {i}]

\* A slip in add_to_ready_queue(): a blocked input is not counted.
add_to_ready_queueUncounted(s, i) ==
    IF s.inputs_[i].unscheduled /\ s.inputs_[i].blocked_time = 0
    THEN add_to_unscheduled_queue(s, i)
    ELSE [s EXCEPT !.ready_counter_ = @ + 1,
                   !.inputs_[i].queue_counter = s.ready_counter_ + 1,
                   !.ready_priority_ = @ \cup {i},
                   !.hist.inserted[i] = Len(s.hist.insertions) + 1,
                   !.hist.insertions = Append(@, i)]

\* A slip in add_to_ready_queue(): the input goes to the front of its
\* priority instead of the back.
add_to_ready_queueFront(s, i) ==
    IF s.inputs_[i].unscheduled /\ s.inputs_[i].blocked_time = 0
    THEN add_to_unscheduled_queue(s, i)
    ELSE [s EXCEPT !.num_blocked_ = IF s.inputs_[i].blocked_time > 0 THEN @ + 1 ELSE @,
                   !.ready_counter_ = @ + 1,
                   !.inputs_[i].queue_counter = 0 - (s.ready_counter_ + 1),
                   !.ready_priority_ = @ \cup {i},
                   !.hist.inserted[i] = Len(s.hist.insertions) + 1,
                   !.hist.insertions = Append(@, i)]

add_to_ready_queue(s, i) ==
    IF s.inputs_[i].unscheduled /\ s.inputs_[i].blocked_time = 0
    THEN add_to_unscheduled_queue(s, i)
    ELSE [s EXCEPT !.num_blocked_ = IF s.inputs_[i].blocked_time > 0 THEN @ + 1 ELSE @,
                   !.ready_counter_ = @ + 1,
                   !.inputs_[i].queue_counter = s.ready_counter_ + 1,
                   !.ready_priority_ = @ \cup {i},
                   !.hist.inserted[i] = Len(s.hist.insertions) + 1,
                   !.hist.insertions = Append(@, i)]

\* A slip in pop_from_ready_queue(): the blocked inputs passed over are not
\* put back.
ReAddBlockedDrop(s, blocked) == s

\* pop_from_ready_queue(), in the iteration order of the std::set.
RECURSIVE ReAddBlocked(_, _)
ReAddBlocked(s, blocked) ==
    IF blocked = {} THEN s
    ELSE Let(CHOOSE x \in blocked : \A y \in blocked : x <= y, LAMBDA i :
            ReAddBlocked(add_to_ready_queue(s, i), blocked \ {i}))

\* The scan loop of pop_from_ready_queue().
RECURSIVE PopScan(_, _, _, _, _)
PopScan(s, for_output, cur_time, skipped, blocked) ==
    IF s.ready_priority_ = {}
    THEN [s |-> s, res |-> INVALID_INPUT_ORDINAL, skipped |-> skipped, blocked |-> blocked]
    ELSE Let(QueueTop(s, s.ready_priority_), LAMBDA res :
         Let([s EXCEPT !.ready_priority_ = @ \ {res}], LAMBDA s1 :
         Let(s.inputs_[res], LAMBDA inp :
            IF inp.binding = {} \/ for_output \in inp.binding
            THEN Let(IF inp.blocked_time > 0
                     THEN [s1 EXCEPT !.num_blocked_ = @ - 1] ELSE s1,
                     LAMBDA s2 :
                    IF /\ inp.blocked_time > 0
                       /\ USub(cur_time, inp.blocked_start_time) < inp.blocked_time
                    THEN PopScan(s2, for_output, cur_time, skipped, blocked \cup {res})
                    ELSE [s |-> s2, res |-> res, skipped |-> skipped, blocked |-> blocked])
            ELSE PopScan(s1, for_output, cur_time, skipped \cup {res}, blocked))))

\* pop_from_ready_queue(): returns the state, the status and the input (or
\* INVALID_INPUT_ORDINAL for nullptr).
pop_from_ready_queue(s, for_output) ==
    Let(IF s.num_blocked_ > 0 THEN get_output_time(s, for_output) ELSE 0, LAMBDA cur_time :
    Let(PopScan(s, for_output, cur_time, {}, {}), LAMBDA scan :
    Let(IF scan.res = INVALID_INPUT_ORDINAL /\ scan.blocked # {}
        THEN "IDLE" ELSE "OK",
        LAMBDA status :
    Let([scan.s EXCEPT !.ready_priority_ = @ \cup scan.skipped], LAMBDA s1 :
    Let(ReAddBlocked(s1, scan.blocked), LAMBDA s2 :
    Let(IF scan.res # INVALID_INPUT_ORDINAL
        THEN [s2 EXCEPT !.inputs_[scan.res].blocked_time = 0,
                        !.inputs_[scan.res].unscheduled = FALSE]
        ELSE s2,
        LAMBDA s3 :
       [s |-> s3, status |-> status, new_input |-> scan.res]))))))

\* scale_blocked_time(): block_time_multiplier is the rational
\* block_time_multiplier_num / block_time_multiplier_den.
scale_blocked_time(s, initial_time) ==
    Let((initial_time * s.options_.block_time_multiplier_num)
            \div s.options_.block_time_multiplier_den,
        LAMBDA scaled :
    Let(IF scaled > s.options_.block_time_max_us
        THEN s.options_.block_time_max_us ELSE scaled,
        LAMBDA scaled_us :
       scaled_us * s.options_.time_units_per_us))

\* syscall_incurs_switch(): returns whether to switch and the blocked time.
syscall_incurs_switch(s, i) ==
    LET inp == s.inputs_[i]
    IN
    Let(get_last_timestamp(readers[i], inp.pos), LAMBDA post_time :
       IF ~readers[i].frequent_timestamps
       THEN [switch |-> inp.processing_maybe_blocking_syscall,
             blocked_time |-> s.options_.blocking_switch_threshold]
       ELSE Let(USub(post_time, inp.pre_syscall_timestamp), LAMBDA latency :
            Let(IF inp.processing_maybe_blocking_syscall
                THEN s.options_.blocking_switch_threshold
                ELSE s.options_.syscall_switch_threshold,
                LAMBDA threshold :
               [switch |-> latency >= threshold,
                blocked_time |-> scale_blocked_time(s, latency)])))

\* ------------------------------------------------------------------------
\* Schedule recording.  A schedule_record_t is a record of its type, its
\* input, its start instruction (or idle duration), its stop instruction
\* and its timestamp.
\* ------------------------------------------------------------------------
Recording(s) == s.options_.schedule_record_ostream

LastOf(seq) == seq[Len(seq)]

\* A slip in record_schedule_segment(): an idle segment is appended whatever
\* the last segment is.
record_schedule_segmentUnmerged(s, output, type, input, start_instruction, stop_instruction) ==
    [s EXCEPT !.outputs_[output].record =
        Append(@, [type |-> type, input |-> input, start |-> start_instruction,
                   stop |-> stop_instruction,
                   timestamp |-> get_time_micros(s, output)])]

\* record_schedule_segment()
record_schedule_segment(s, output, type, input, start_instruction, stop_instruction) ==
    IF type = "IDLE" /\ LastOf(s.outputs_[output].record).type = "IDLE"
    THEN s
    ELSE [s EXCEPT !.outputs_[output].record =
             Append(@, [type |-> type, input |-> input, start |-> start_instruction,
                        stop |-> stop_instruction,
                        timestamp |-> get_time_micros(s, output)])]

\* close_schedule_segment(); input is INVALID_INPUT_ORDINAL for the unused
\* input_info_t passed when the open segment is an idle one.
close_schedule_segment(s, output, input) ==
    Let(LastOf(s.outputs_[output].record), LAMBDA back :
    Let(Len(s.outputs_[output].record), LAMBDA n :
       IF back.type = "SKIP" THEN s
       ELSE IF back.type = "IDLE"
       THEN [s EXCEPT !.outputs_[output].record[n].start =
                USub(get_time_micros(s, output), back.timestamp)]
       ELSE Let(IF input = INVALID_INPUT_ORDINAL THEN 0
                ELSE IF \/ s.inputs_[input].at_eof
                        \/ ReaderAtEnd(readers[input], s.inputs_[input].pos)
                THEN UINT64_MAX
                ELSE get_instr_ordinal(s, input),
                LAMBDA instr_ord :
               IF input # INVALID_INPUT_ORDINAL
                  /\ s.inputs_[input].switching_pre_instruction
               THEN [s EXCEPT !.inputs_[input].switching_pre_instruction = FALSE,
                              !.outputs_[output].record[n].stop =
                                  (instr_ord + 1) % (UINT64_MAX + 1)]
               ELSE [s EXCEPT !.outputs_[output].record[n].stop = instr_ord])))

\* record_schedule_skip()
record_schedule_skip(s, output, input, start_instruction, stop_instruction) ==
    IF ~Recording(s) THEN s
    ELSE
    Let(IF /\ LastOf(s.outputs_[output].record).type = "DEFAULT"
           /\ LastOf(s.outputs_[output].record).input = input
        THEN close_schedule_segment(s, output, input) ELSE s,
        LAMBDA s1 :
    Let(IF Len(s1.outputs_[output].record) = 1
        THEN record_schedule_segment(s1, output, "DEFAULT", input, 0, 0) ELSE s1,
        LAMBDA s2 :
    Let(record_schedule_segment(s2, output, "SKIP", input,
                                start_instruction, stop_instruction),
        LAMBDA s3 :
       record_schedule_segment(s3, output, "DEFAULT", input, stop_instruction,
                               UINT64_MAX))))

\* switch_type_t.
SWITCH_INVALID == 0
SWITCH_THREAD == 1
SWITCH_PROCESS == 2

\* read_switch_sequences(): the records of the kernel switch reader between
\* a context-switch start marker and its end marker, by the type of switch
\* that the start marker names.  (A second sequence of one type and an end
\* marker of another type make init() fail; the instances explored have
\* none.)
RECURSIVE ReadSwitchSequences(_, _, _, _)
ReadSwitchSequences(recs, n, switch_type, sequences) ==
    IF n > Len(recs) THEN sequences
    ELSE Let(IF recs[n].k = "context_switch_start" THEN recs[n].v ELSE switch_type,
             LAMBDA type :
            ReadSwitchSequences(
                recs, n + 1,
                IF recs[n].k = "context_switch_end" THEN SWITCH_INVALID ELSE type,
                IF type # SWITCH_INVALID
                THEN [sequences EXCEPT ![type] = Append(@, recs[n])]
                ELSE sequences))

read_switch_sequences(opt) ==
    ReadSwitchSequences(opt.kernel_switch_reader, 1, SWITCH_INVALID,
                        [type \in {SWITCH_THREAD, SWITCH_PROCESS} |-> <<>>])

\* The member switch_sequence_, which init() fills and nothing changes.
switch_sequence_(s) == read_switch_sequences(s.options_)

\* The injection of kernel context switch code by set_cur_input(): the
\* records of the sequence go to the front of the queue of the input, with
\* the tid of the input, once the output stream has counted an instruction.
inject_switch_sequence(s, output, input) ==
    LET prev_input == s.outputs_[output].prev_input IN
    IF s.options_.kernel_switch_reader = <<>>
           \/ s.outputs_[output].cur_instr_count_ = 0
    THEN s
    ELSE Let(IF prev_input >= 0 /\ prev_input # input
             THEN readers[prev_input].workload ELSE -1,
             LAMBDA prev_workload :
         Let(IF prev_workload # readers[input].workload
             THEN SWITCH_PROCESS ELSE SWITCH_THREAD,
             LAMBDA switch_type :
         Let(switch_sequence_(s)[switch_type], LAMBDA sequence :
            [s EXCEPT !.inputs_[input].queue =
                [n \in 1 .. Len(sequence) |->
                    [k |-> sequence[n].k, v |-> sequence[n].v, ord |-> 0,
                     input |-> input]] \o @])))

\* History: with switch sequences configured, each switch of an output that
\* has counted an instruction from one input to another is noted with the
\* input that ran before and the number of records delivered from the new
\* input so far.
NoteSwitchIn(s, output, input) ==
    LET prev_input == s.outputs_[output].prev_input IN
    IF /\ s.options_.kernel_switch_reader # <<>>
       /\ s.outputs_[output].cur_instr_count_ > 0
       /\ prev_input >= 0 /\ prev_input # input
    THEN [s EXCEPT !.hist.switched_in[input] =
             Append(@, [at |-> Len(s.hist.delivered[input]), prev |-> prev_input])]
    ELSE s

\* set_cur_input()
set_cur_input(s, output, input) ==
    LET prev_input == s.outputs_[output].cur_input
    IN
    Let(IF prev_input >= 0
        THEN Let(IF /\ s.options_.mapping = "MAP_TO_ANY_OUTPUT"
                    /\ prev_input # input
                    /\ ~s.inputs_[prev_input].at_eof
                 THEN add_to_ready_queue(s, prev_input) ELSE s,
                 LAMBDA a :
                IF prev_input # input /\ Recording(s)
                THEN close_schedule_segment(a, output, prev_input) ELSE a)
        ELSE IF Recording(s) /\ LastOf(s.outputs_[output].record).type = "IDLE"
        THEN close_schedule_segment(s, output, INVALID_INPUT_ORDINAL)
        ELSE s,
        LAMBDA s1 :
    Let([s1 EXCEPT !.outputs_[output].prev_input =
                       IF s1.outputs_[output].cur_input >= 0
                       THEN s1.outputs_[output].cur_input ELSE @,
                   !.outputs_[output].cur_input = input],
        LAMBDA s2 :
       IF input < 0 \/ prev_input = input THEN s2
       ELSE Let(IF /\ s2.inputs_[input].prev_output # INVALID_OUTPUT_ORDINAL
                   /\ s2.inputs_[input].prev_output # output
                THEN IncStat(s2, output, "MIGRATIONS") ELSE s2,
                LAMBDA s3 :
            Let([NoteSwitchIn(inject_switch_sequence(s3, output, input), output, input)
                    EXCEPT !.inputs_[input].prev_output = output,
                           !.inputs_[input].prev_time_in_quantum =
                               s3.outputs_[output].cur_time],
                LAMBDA s4 :
               IF ~Recording(s) THEN s4
               ELSE Let(get_instr_ordinal(s4, input), LAMBDA instr_ord :
                    LET regions == readers[input].regions_of_interest IN
                    IF /\ regions # <<>>
                       /\ s4.inputs_[input].cur_region = 0
                       /\ s4.inputs_[input].in_cur_region
                       /\ \/ instr_ord = regions[1].start
                          \/ instr_ord + 1 = regions[1].start
                    THEN record_schedule_skip(s4, output, input, 0, regions[1].start)
                    ELSE record_schedule_segment(s4, output, "DEFAULT", input,
                                                 instr_ord, UINT64_MAX))))))

\* ------------------------------------------------------------------------
\* Locks.  A call runs on one thread; hist.held is the set of inputs whose
\* lock the thread holds, and hist.inverted notes that the thread took
\* sched_lock_ while it held the lock of an input.
\* ------------------------------------------------------------------------
\* need_sched_lock()
need_sched_lock(s) ==
    s.options_.mapping \in {"MAP_TO_ANY_OUTPUT", "MAP_AS_PREVIOUSLY"}

\* acquire_scoped_sched_lock_if_necessary()
acquire_scoped_sched_lock_if_necessary(s) ==
    IF need_sched_lock(s) /\ s.hist.held # {}
    THEN [s EXCEPT !.hist.inverted = TRUE] ELSE s

\* The thread takes the lock of the input.
LockInput(s, input) == [s EXCEPT !.hist.held = @ \cup {input}]

\* The thread releases the lock of the input.
UnlockInput(s, input) == [s EXCEPT !.hist.held = @ \ {input}]

\* A slip in mark_input_eof(): an input already at its end is counted again.
mark_input_eofAgain(s, input) ==
    [s EXCEPT !.inputs_[input].at_eof = TRUE,
              !.live_input_count_ = @ - 1]

\* mark_input_eof()
mark_input_eof(s, input) ==
    IF s.inputs_[input].at_eof THEN s
    ELSE [s EXCEPT !.inputs_[input].at_eof = TRUE,
                   !.live_input_count_ = @ - 1]

\* A slip in eof_or_idle(): the unscheduled inputs are left where they are.
FlushUnscheduledNone(s) == s

\* The loop of eof_or_idle() that moves every unscheduled input to the ready
\* queue.
RECURSIVE FlushUnscheduled(_)
FlushUnscheduled(s) ==
    IF s.unscheduled_priority_ = {} THEN s
    ELSE Let(QueueTop(s, s.unscheduled_priority_), LAMBDA tomove :
            FlushUnscheduled([s EXCEPT !.inputs_[tomove].unscheduled = FALSE,
                                       !.ready_priority_ = @ \cup {tomove},
                                       !.unscheduled_priority_ = @ \ {tomove},
                                       !.hist.inserted[tomove] =
                                           Len(s.hist.insertions) + 1,
                                       !.hist.insertions = Append(@, tomove)]))

\* A slip in the test of eof_or_idle(): the ready queues are consulted
\* instead of the count of live inputs.
EofConditionQueues(s) ==
    \/ s.options_.mapping = "MAP_TO_CONSISTENT_OUTPUT"
    \/ (s.ready_priority_ = {} /\ s.unscheduled_priority_ = {})
    \/ (s.options_.mapping = "MAP_AS_PREVIOUSLY" /\ s.live_replay_output_count_ = 0)

\* A slip in the test of eof_or_idle(): the last live input is not waited
\* for.
EofConditionOffByOne(s) ==
    \/ s.options_.mapping = "MAP_TO_CONSISTENT_OUTPUT"
    \/ s.live_input_count_ <= 1
    \/ (s.options_.mapping = "MAP_AS_PREVIOUSLY" /\ s.live_replay_output_count_ = 0)

\* The test of eof_or_idle() for returning EOF.
EofCondition(s) ==
    \/ s.options_.mapping = "MAP_TO_CONSISTENT_OUTPUT"
    \/ s.live_input_count_ = 0
    \/ (s.options_.mapping = "MAP_AS_PREVIOUSLY" /\ s.live_replay_output_count_ = 0)

\* eof_or_idle(): returns the state and the status.
eof_or_idle(s, output, prev_input) ==
    IF EofCondition(s)
    THEN [s |-> s, status |-> "EOF"]
    ELSE LET out == s.outputs_[output]
         IN
         Let(IF s.options_.mapping = "MAP_TO_ANY_OUTPUT"
             THEN IF ready_queue_empty(s) /\ s.unscheduled_priority_ # {}
                  THEN IF out.wait_start_time = 0
                       THEN [s EXCEPT !.outputs_[output].wait_start_time =
                                          get_output_time(s, output)]
                       ELSE Let(get_output_time(s, output), LAMBDA now :
                            Let(USub(now, out.wait_start_time)
                                    * s.options_.time_units_per_us,
                                LAMBDA elapsed_micros :
                               IF elapsed_micros > s.options_.block_time_max_us
                               THEN Let(FlushUnscheduled(s), LAMBDA f :
                                       [f EXCEPT !.outputs_[output].wait_start_time = 0,
                                                 !.hist.flushes = Append(@,
                                                     [output |-> output,
                                                      start |-> out.wait_start_time,
                                                      now |-> now])])
                               ELSE s))
                  ELSE [s EXCEPT !.outputs_[output].wait_start_time = 0]
             ELSE s,
             LAMBDA s1 :
         Let([s1 EXCEPT !.outputs_[output].waiting = TRUE], LAMBDA s2 :
         Let(IF prev_input # INVALID_INPUT_ORDINAL
             THEN IncStat(s2, output, "SWITCH_INPUT_TO_IDLE") ELSE s2,
             LAMBDA s3 :
            [s |-> set_cur_input(s3, output, INVALID_INPUT_ORDINAL), status |-> "IDLE"])))

\* ------------------------------------------------------------------------
\* Picking the next input.
\* ------------------------------------------------------------------------
\* outputs_[output].record[idx], with the source's 0-based index.
RecordAt(s, output, idx) == s.outputs_[output].record[idx + 1]

\* reader->init() under needs_init.
InitReader(s, index) ==
    IF s.inputs_[index].needs_init
    THEN [s EXCEPT !.inputs_[index].pos = 1, !.inputs_[index].needs_init = FALSE]
    ELSE s

\* eof_or_idle() called with hold_sched_lock false: it takes sched_lock_
\* unless it returns EOF at once.
eof_or_idle_unlocked(s, output, prev_input) ==
    eof_or_idle(IF EofCondition(s) THEN s
                ELSE acquire_scoped_sched_lock_if_necessary(s),
                output, prev_input)

\* ------------------------------------------------------------------------
\* Regions of interest.  regions_of_interest is kept with the reader of the
\* input; cur_region counts from 0 as in the source.  (The source's
\* "cur_range = ..." assigns through a reference and so overwrites the
\* finished region's entry, which is never read again.)
\* ------------------------------------------------------------------------
\* cur_region is past the last region: the input was ended by its last
\* region, and advance_region_of_interest() must not be reached with it.
PastLastRegion(s, input) ==
    s.inputs_[input].cur_region >= Len(readers[input].regions_of_interest)

\* regions_of_interest[cur_region].  Past the last region the read is out
\* of bounds: it yields whatever follows the vector in memory, past_the_end.
CurRange(s, input) ==
    IF PastLastRegion(s, input) THEN readers[input].past_the_end
    ELSE readers[input].regions_of_interest[s.inputs_[input].cur_region + 1]

\* The assertions of skip_instructions() and clear_input_queue() on the
\* queue about to be cleared: no instruction behind its front, and for a
\* skip of 0 none at its front either.
QueueMayBeCleared(queue, skip_amount) ==
    /\ \A k \in 2 .. Len(queue) : ~record_type_is_instr(queue[k])
    /\ skip_amount > 0 \/ queue = <<>> \/ ~record_type_is_instr(Head(queue))

\* clear_input_queue(); hist.dropped notes that an instruction behind the
\* front of the queue was thrown away.
clear_input_queue(s, input) ==
    [s EXCEPT !.inputs_[input].queue = <<>>,
              !.hist.dropped[input] =
                  @ \/ ~QueueMayBeCleared(s.inputs_[input].queue, 1)]

\* skip_instructions(); hist.skips notes the amount asked of the reader and
\* the instruction ordinal the reader had when the caller computed it.
skip_instructions(s, input, skip_amount) ==
    IF s.options_.assertions
       /\ ~QueueMayBeCleared(s.inputs_[input].queue, skip_amount)
    THEN [s |-> [s EXCEPT !.hist.dropped[input] = TRUE], status |-> "ABORTED"]
    ELSE
    Let(clear_input_queue(InitReader(s, input), input), LAMBDA s0 :
    Let([s0 EXCEPT !.inputs_[input].pos =
                       reader_skip_instructions(readers[input], @, skip_amount),
                   !.inputs_[input].instrs_pre_read = 0,
                   !.hist.skips[input] =
                       Append(@, [amount |-> skip_amount,
                                  from |-> get_instruction_ordinal(
                                               readers[input], s.inputs_[input].pos),
                                  region |-> s.inputs_[input].cur_region])],
        LAMBDA s1 :
       IF ReaderAtEnd(readers[input], s1.inputs_[input].pos)
       THEN [s |-> mark_input_eof(s1, input),
             status |-> IF skip_amount >= UINT64_MAX - 2
                        THEN "SKIPPED" ELSE "REGION_INVALID"]
       ELSE [s |-> [s1 EXCEPT
                       !.inputs_[input].in_cur_region = TRUE,
                       !.inputs_[input].queue =
                           IF s1.inputs_[input].cur_region > 0
                           THEN Append(@, create_region_separator_marker(
                                              input, s1.inputs_[input].cur_region))
                           ELSE @],
             status |-> "SKIPPED"]))

\* The end of advance_region_of_interest(): the input is on region
\* cur_region and has not passed its end.
AdvanceToRegion(s, output, record, input, cur_instr, cur_reader_instr) ==
    LET inp == s.inputs_[input]
        cur_range == CurRange(s, input)
    IN
    IF ~inp.in_cur_region /\ cur_instr >= cur_range.start
    THEN IF inp.cur_region > 0
         THEN [s |-> [s EXCEPT !.inputs_[input].in_cur_region = TRUE,
                               !.inputs_[input].queue = Append(@, record)],
               status |-> "OK",
               record |-> create_region_separator_marker(input, inp.cur_region)]
         ELSE [s |-> [s EXCEPT !.inputs_[input].in_cur_region = TRUE],
               status |-> "OK", record |-> record]
    ELSE IF inp.in_cur_region /\ cur_instr >= cur_range.start - 1
    THEN [s |-> s, status |-> "OK", record |-> record]
    ELSE Let(IF Recording(s) /\ output >= 0
             THEN record_schedule_skip(s, output, input, cur_instr, cur_range.start)
             ELSE s,
             LAMBDA s1 :
            IF cur_range.start < cur_reader_instr
            THEN [s |-> s1, status |-> "INVALID", record |-> record]
            ELSE Let(skip_instructions(s1, input,
                                       cur_range.start - cur_reader_instr - 1),
                     LAMBDA k :
                    [s |-> k.s, status |-> k.status, record |-> record]))

\* A slip in advance_region_of_interest(): a region is left when the
\* instruction at its stop has been read.
advance_region_of_interestExclusive(s, output, record, input) ==
    IF PastLastRegion(s, input) /\ s.options_.assertions
    THEN [s |-> s, status |-> "ABORTED", record |-> record]
    ELSE
    Let(get_instr_ordinal(s, input), LAMBDA cur_instr :
    Let(get_instruction_ordinal(readers[input], s.inputs_[input].pos),
        LAMBDA cur_reader_instr :
    Let(/\ s.inputs_[input].in_cur_region
        /\ CurRange(s, input).stop # 0
        /\ cur_instr >= CurRange(s, input).stop,
        LAMBDA ended :
    Let(IF ended
        THEN [s EXCEPT !.inputs_[input].cur_region = @ + 1,
                       !.inputs_[input].in_cur_region = FALSE]
        ELSE s,
        LAMBDA s1 :
       IF ended /\ s1.inputs_[input].cur_region
                       >= Len(readers[input].regions_of_interest)
       THEN IF s1.inputs_[input].at_eof
            THEN Let(eof_or_idle_unlocked(s1, output, input), LAMBDA e :
                    [s |-> e.s, status |-> e.status, record |-> record])
            ELSE Let(IF Recording(s1)
                     THEN record_schedule_segment(
                              close_schedule_segment(s1, output, input), output,
                              "SYNTHETIC_END", input, cur_instr, 0)
                     ELSE s1,
                     LAMBDA s2 :
                 Let([s2 EXCEPT !.inputs_[input].queue =
                                    Append(@, create_thread_exit(input))],
                     LAMBDA s3 :
                    [s |-> mark_input_eof(s3, input), status |-> "SKIPPED",
                     record |-> record]))
       ELSE AdvanceToRegion(s1, output, record, input, cur_instr,
                            cur_reader_instr)))))

\* advance_region_of_interest(): returns the state, the status and the
\* record, which a region separator may replace.  In a build with
\* assertions the assert on cur_region stops the process (ABORTED).
advance_region_of_interest(s, output, record, input) ==
    IF PastLastRegion(s, input) /\ s.options_.assertions
    THEN [s |-> s, status |-> "ABORTED", record |-> record]
    ELSE
    Let(get_instr_ordinal(s, input), LAMBDA cur_instr :
    Let(get_instruction_ordinal(readers[input], s.inputs_[input].pos),
        LAMBDA cur_reader_instr :
    Let(/\ s.inputs_[input].in_cur_region
        /\ CurRange(s, input).stop # 0
        /\ cur_instr > CurRange(s, input).stop,
        LAMBDA ended :
    Let(IF ended
        THEN [s EXCEPT !.inputs_[input].cur_region = @ + 1,
                       !.inputs_[input].in_cur_region = FALSE]
        ELSE s,
        LAMBDA s1 :
       IF ended /\ s1.inputs_[input].cur_region
                       >= Len(readers[input].regions_of_interest)
       THEN IF s1.inputs_[input].at_eof
            THEN Let(eof_or_idle_unlocked(s1, output, input), LAMBDA e :
                    [s |-> e.s, status |-> e.status, record |-> record])
            ELSE Let(IF Recording(s1)
                     THEN record_schedule_segment(
                              close_schedule_segment(s1, output, input), output,
                              "SYNTHETIC_END", input, cur_instr, 0)
                     ELSE s1,
                     LAMBDA s2 :
                 Let([s2 EXCEPT !.inputs_[input].queue =
                                    Append(@, create_thread_exit(input))],
                     LAMBDA s3 :
                    [s |-> mark_input_eof(s3, input), status |-> "SKIPPED",
                     record |-> record]))
       ELSE AdvanceToRegion(s1, output, record, input, cur_instr,
                            cur_reader_instr)))))

\* pick_next_input_as_previously(): returns the state, the status and the
\* chosen input.
pick_next_input_as_previously(s, output) ==
    LET out == s.outputs_[output] IN
    IF out.record_index + 1 >= Len(out.record)
    THEN Let(IF ~out.at_eof
             THEN [s EXCEPT !.outputs_[output].at_eof = TRUE,
                            !.live_replay_output_count_ = @ - 1]
             ELSE s,
             LAMBDA s1 :
         Let(eof_or_idle(s1, output, out.cur_input), LAMBDA e :
            [s |-> e.s, status |-> e.status, index |-> INVALID_INPUT_ORDINAL]))
    ELSE Let(RecordAt(s, output, out.record_index + 1), LAMBDA segment :
         Let(segment.input, LAMBDA index :
            IF segment.type = "IDLE"
            THEN [s |-> [s EXCEPT !.outputs_[output].waiting = TRUE,
                                  !.outputs_[output].wait_start_time =
                                      get_output_time(s, output),
                                  !.outputs_[output].record_index = @ + 1],
                  status |-> "IDLE", index |-> INVALID_INPUT_ORDINAL]
            ELSE IF /\ get_instr_ordinal(s, index) < segment.start
                    /\ segment.start > 1
                    /\ \/ out.record_index = -1
                       \/ /\ RecordAt(s, output, out.record_index).type # "SKIP"
                          /\ segment.type # "SYNTHETIC_END"
            THEN [s |-> [set_cur_input(s, output, INVALID_INPUT_ORDINAL)
                            EXCEPT !.outputs_[output].waiting = TRUE],
                  status |-> "WAIT", index |-> index]
            ELSE IF /\ s.options_.deps = "DEPENDENCY_TIMESTAMPS"
                    /\ \E i \in DOMAIN s.outputs_ :
                          /\ i # output
                          /\ s.outputs_[i].record_index + 1 < Len(s.outputs_[i].record)
                          /\ segment.timestamp >
                                 RecordAt(s, i, s.outputs_[i].record_index + 1).timestamp
            THEN [s |-> [set_cur_input(s, output, INVALID_INPUT_ORDINAL)
                            EXCEPT !.outputs_[output].waiting = TRUE],
                  status |-> "WAIT", index |-> index]
            ELSE IF segment.type = "SYNTHETIC_END"
            THEN Let([clear_input_queue(s, index) EXCEPT
                         !.inputs_[index].queue = <<create_thread_exit(index)>>],
                     LAMBDA s1 :
                    [s |-> [mark_input_eof(s1, index) EXCEPT
                               !.outputs_[output].record_index = @ + 1],
                     status |-> "SKIPPED", index |-> index])
            ELSE IF segment.type = "SKIP"
            THEN Let(get_instruction_ordinal(readers[index], s.inputs_[index].pos),
                     LAMBDA cur_reader_instr :
                 Let(skip_instructions(s, index,
                                       USub(USub(segment.stop, cur_reader_instr), 1)),
                     LAMBDA k :
                 Let([k.s EXCEPT !.inputs_[index].cur_region = @ + 1], LAMBDA s1 :
                    IF k.status # "SKIPPED"
                    THEN [s |-> s1, status |-> "INVALID", index |-> index]
                    ELSE [s |-> [s1 EXCEPT !.outputs_[output].record_index = @ + 2],
                          status |-> "SKIPPED", index |-> index])))
            ELSE [s |-> [s EXCEPT !.outputs_[output].record_index = @ + 1],
                  status |-> "OK", index |-> index]))

\* A slip in the direct switch: the blocked time of a target taken from the
\* ready queue is kept.
DirectSwitchKeepsBlocked(s, output, prev_index) ==
    IF \/ prev_index = INVALID_INPUT_ORDINAL
       \/ s.inputs_[prev_index].switch_to_input = INVALID_INPUT_ORDINAL
    THEN [s |-> s, index |-> INVALID_INPUT_ORDINAL]
    ELSE LET target == s.inputs_[prev_index].switch_to_input
         IN
         Let([s EXCEPT !.inputs_[prev_index].switch_to_input = INVALID_INPUT_ORDINAL],
             LAMBDA s1 :
         Let(s1.inputs_[target], LAMBDA tgt :
         LET Migr(x) == IF /\ tgt.prev_output # INVALID_OUTPUT_ORDINAL
                           /\ tgt.prev_output # output
                        THEN IncStat(x, output, "MIGRATIONS") ELSE x
         IN
            IF target \in s1.ready_priority_
            THEN Let([s1 EXCEPT !.ready_priority_ = @ \ {target}], LAMBDA s2 :
                    [s |-> IncStat(Migr(s2), output, "DIRECT_SWITCH_SUCCESSES"),
                     index |-> target])
            ELSE IF target \in s1.unscheduled_priority_
            THEN Let([s1 EXCEPT !.inputs_[target].unscheduled = FALSE,
                                !.unscheduled_priority_ = @ \ {target}],
                     LAMBDA s2 :
                    [s |-> IncStat(Migr(s2), output, "DIRECT_SWITCH_SUCCESSES"),
                     index |-> target])
            ELSE [s |-> [s1 EXCEPT !.inputs_[target].skip_next_unscheduled = TRUE],
                  index |-> INVALID_INPUT_ORDINAL]))

\* A slip in the direct switch: a miss leaves the target as it is.
DirectSwitchMissSilent(s, output, prev_index) ==
    IF \/ prev_index = INVALID_INPUT_ORDINAL
       \/ s.inputs_[prev_index].switch_to_input = INVALID_INPUT_ORDINAL
    THEN [s |-> s, index |-> INVALID_INPUT_ORDINAL]
    ELSE LET target == s.inputs_[prev_index].switch_to_input
         IN
         Let([s EXCEPT !.inputs_[prev_index].switch_to_input = INVALID_INPUT_ORDINAL],
             LAMBDA s1 :
         Let(s1.inputs_[target], LAMBDA tgt :
         LET Migr(x) == IF /\ tgt.prev_output # INVALID_OUTPUT_ORDINAL
                           /\ tgt.prev_output # output
                        THEN IncStat(x, output, "MIGRATIONS") ELSE x
         IN
            IF target \in s1.ready_priority_
            THEN Let([s1 EXCEPT !.ready_priority_ = @ \ {target}], LAMBDA s2 :
                 Let(IF tgt.blocked_time > 0
                     THEN [s2 EXCEPT !.num_blocked_ = @ - 1,
                                     !.inputs_[target].blocked_time = 0,
                                     !.inputs_[target].unscheduled = FALSE]
                     ELSE s2,
                     LAMBDA s3 :
                    [s |-> IncStat(Migr(s3), output, "DIRECT_SWITCH_SUCCESSES"),
                     index |-> target]))
            ELSE IF target \in s1.unscheduled_priority_
            THEN Let([s1 EXCEPT !.inputs_[target].unscheduled = FALSE,
                                !.unscheduled_priority_ = @ \ {target}],
                     LAMBDA s2 :
                    [s |-> IncStat(Migr(s2), output, "DIRECT_SWITCH_SUCCESSES"),
                     index |-> target])
            ELSE [s |-> s1, index |-> INVALID_INPUT_ORDINAL]))

\* The direct-switch part of pick_next_input(): returns the state and the
\* chosen input, INVALID_INPUT_ORDINAL when the target cannot be taken.
DirectSwitch(s, output, prev_index) ==
    IF \/ prev_index = INVALID_INPUT_ORDINAL
       \/ s.inputs_[prev_index].switch_to_input = INVALID_INPUT_ORDINAL
    THEN [s |-> s, index |-> INVALID_INPUT_ORDINAL]
    ELSE LET target == s.inputs_[prev_index].switch_to_input
         IN
         Let([s EXCEPT !.inputs_[prev_index].switch_to_input = INVALID_INPUT_ORDINAL],
             LAMBDA s1 :
         Let(s1.inputs_[target], LAMBDA tgt :
         LET Migr(x) == IF /\ tgt.prev_output # INVALID_OUTPUT_ORDINAL
                           /\ tgt.prev_output # output
                        THEN IncStat(x, output, "MIGRATIONS") ELSE x
         IN
            IF target \in s1.ready_priority_
            THEN Let([s1 EXCEPT !.ready_priority_ = @ \ {target}], LAMBDA s2 :
                 Let(IF tgt.blocked_time > 0
                     THEN [s2 EXCEPT !.num_blocked_ = @ - 1,
                                     !.inputs_[target].blocked_time = 0,
                                     !.inputs_[target].unscheduled = FALSE]
                     ELSE s2,
                     LAMBDA s3 :
                    [s |-> IncStat(Migr(s3), output, "DIRECT_SWITCH_SUCCESSES"),
                     index |-> target]))
            ELSE IF target \in s1.unscheduled_priority_
            THEN Let([s1 EXCEPT !.inputs_[target].unscheduled = FALSE,
                                !.unscheduled_priority_ = @ \ {target}],
                     LAMBDA s2 :
                    [s |-> IncStat(Migr(s2), output, "DIRECT_SWITCH_SUCCESSES"),
                     index |-> target])
            ELSE [s |-> [s1 EXCEPT !.inputs_[target].skip_next_unscheduled = TRUE],
                  index |-> INVALID_INPUT_ORDINAL]))

\* A slip in the accounting: going back to the prior input is counted as a
\* switch between inputs.
PickFinishCountsSwitch(s, output, prev_index, index, res) ==
    Let(IF prev_index # INVALID_INPUT_ORDINAL /\ index # INVALID_INPUT_ORDINAL
        THEN "SWITCH_INPUT_TO_INPUT"
        ELSE IF index = INVALID_INPUT_ORDINAL THEN "SWITCH_INPUT_TO_IDLE"
        ELSE "SWITCH_IDLE_TO_INPUT",
        LAMBDA stat :
       [s |-> set_cur_input(IncStat(s, output, stat), output, index), status |-> res])

\* The tail of pick_next_input(): the switch statistics and set_cur_input().
PickFinish(s, output, prev_index, index, res) ==
    Let(IF prev_index = index THEN "SWITCH_NOP"
        ELSE IF prev_index # INVALID_INPUT_ORDINAL /\ index # INVALID_INPUT_ORDINAL
        THEN "SWITCH_INPUT_TO_INPUT"
        ELSE IF index = INVALID_INPUT_ORDINAL THEN "SWITCH_INPUT_TO_IDLE"
        ELSE "SWITCH_IDLE_TO_INPUT",
        LAMBDA stat :
       [s |-> set_cur_input(IncStat(s, output, stat), output, index), status |-> res])

\* One selection of the MAP_TO_ANY_OUTPUT branch of pick_next_input():
\* returns done = TRUE with the status to return, or the chosen index.
PickToAny(s, output, blocked_time, prev_index) ==
    Let(IF /\ blocked_time > 0
           /\ prev_index # INVALID_INPUT_ORDINAL
           /\ s.inputs_[prev_index].blocked_time = 0
        THEN [s EXCEPT !.inputs_[prev_index].blocked_time = blocked_time,
                       !.inputs_[prev_index].blocked_start_time =
                           get_output_time(s, output)]
        ELSE s,
        LAMBDA s1 :
    Let(DirectSwitch(s1, output, prev_index), LAMBDA d :
    Let(d.s, LAMBDA s2 :
       IF d.index # INVALID_INPUT_ORDINAL
       THEN [done |-> FALSE, s |-> s2, index |-> d.index, status |-> "OK"]
       ELSE IF ready_queue_empty(s2) /\ blocked_time = 0
       THEN IF prev_index = INVALID_INPUT_ORDINAL \/ s2.inputs_[prev_index].at_eof
            THEN Let(eof_or_idle(s2, output, prev_index), LAMBDA e :
                    [done |-> TRUE, s |-> e.s, index |-> INVALID_INPUT_ORDINAL,
                     status |-> e.status])
            ELSE [done |-> FALSE, s |-> s2, index |-> prev_index, status |-> "OK"]
       ELSE Let(set_cur_input(s2, output, INVALID_INPUT_ORDINAL), LAMBDA s3 :
            Let(pop_from_ready_queue(s3, output), LAMBDA p :
               IF p.status # "OK"
               THEN Let([p.s EXCEPT !.outputs_[output].waiting = TRUE], LAMBDA s4 :
                    Let(IF Recording(s)
                        THEN record_schedule_segment(s4, output, "IDLE", 0, 0, 0)
                        ELSE s4,
                        LAMBDA s5 :
                    Let(IF prev_index # INVALID_INPUT_ORDINAL
                        THEN IncStat(s5, output, "SWITCH_INPUT_TO_IDLE") ELSE s5,
                        LAMBDA s6 :
                       [done |-> TRUE, s |-> s6, index |-> INVALID_INPUT_ORDINAL,
                        status |-> p.status])))
               ELSE IF p.new_input = INVALID_INPUT_ORDINAL
               THEN Let(eof_or_idle(p.s, output, prev_index), LAMBDA e :
                       [done |-> TRUE, s |-> e.s, index |-> INVALID_INPUT_ORDINAL,
                        status |-> e.status])
               ELSE [done |-> FALSE, s |-> p.s, index |-> p.new_input, status |-> "OK"])))))

\* One selection of the MAP_TO_CONSISTENT_OUTPUT branch of pick_next_input().
PickConsistent(s, output) ==
    Let(s.outputs_[output].input_indices_index + 1, LAMBDA indices_index :
    Let([s EXCEPT !.outputs_[output].input_indices_index = indices_index], LAMBDA s1 :
       IF indices_index >= Len(s.outputs_[output].input_indices)
       THEN [done |-> TRUE, s |-> s1, index |-> INVALID_INPUT_ORDINAL, status |-> "EOF"]
       ELSE [done |-> FALSE, s |-> s1,
             index |-> s.outputs_[output].input_indices[indices_index + 1],
             status |-> "OK"]))

\* A slip in the scan for the oldest timestamp: on equal timestamps the last
\* input scanned wins.
PickTimestampsLast(s, output, prev_index) ==
    Let({i \in DOMAIN s.inputs_ :
            ~s.inputs_[i].at_eof /\ s.inputs_[i].next_timestamp > 0},
        LAMBDA cand :
       IF cand = {}
       THEN Let(eof_or_idle(s, output, prev_index), LAMBDA e :
               [done |-> TRUE, s |-> e.s, index |-> INVALID_INPUT_ORDINAL,
                status |-> e.status])
       ELSE [done |-> FALSE, s |-> s,
             index |-> CHOOSE i \in cand : \A j \in cand :
                          \/ s.inputs_[i].next_timestamp < s.inputs_[j].next_timestamp
                          \/ /\ s.inputs_[i].next_timestamp = s.inputs_[j].next_timestamp
                             /\ i >= j,
             status |-> "OK"])

\* One selection of the DEPENDENCY_TIMESTAMPS branch of pick_next_input():
\* the live input with the smallest next_timestamp, the first such input in
\* index order.
PickTimestamps(s, output, prev_index) ==
    Let({i \in DOMAIN s.inputs_ :
            ~s.inputs_[i].at_eof /\ s.inputs_[i].next_timestamp > 0},
        LAMBDA cand :
       IF cand = {}
       THEN Let(eof_or_idle(s, output, prev_index), LAMBDA e :
               [done |-> TRUE, s |-> e.s, index |-> INVALID_INPUT_ORDINAL,
                status |-> e.status])
       ELSE [done |-> FALSE, s |-> s,
             index |-> CHOOSE i \in cand : \A j \in cand :
                          \/ s.inputs_[i].next_timestamp < s.inputs_[j].next_timestamp
                          \/ /\ s.inputs_[i].next_timestamp = s.inputs_[j].next_timestamp
                             /\ i <= j,
             status |-> "OK"])

\* One selection of the MAP_AS_PREVIOUSLY branch of pick_next_input().
PickAsPreviously(s, output) ==
    Let(pick_next_input_as_previously(s, output), LAMBDA r :
       [done |-> r.status \notin {"OK", "SKIPPED"}, s |-> r.s, index |-> r.index,
        status |-> r.status])

\* The while(true) loop of pick_next_input() with index < 0.
RECURSIVE PickLoop(_, _, _, _)
PickLoop(s, output, blocked_time, prev_index) ==
    Let(IF s.options_.mapping = "MAP_AS_PREVIOUSLY" THEN PickAsPreviously(s, output)
        ELSE IF s.options_.mapping = "MAP_TO_ANY_OUTPUT"
        THEN PickToAny(s, output, blocked_time, prev_index)
        ELSE IF s.options_.deps = "DEPENDENCY_TIMESTAMPS"
        THEN PickTimestamps(s, output, prev_index)
        ELSE PickConsistent(s, output),
        LAMBDA sel :
       IF sel.done THEN [s |-> sel.s, status |-> sel.status]
       ELSE IF sel.status = "SKIPPED"
       THEN PickFinish(sel.s, output, prev_index, sel.index, "SKIPPED")
       ELSE Let(InitReader(sel.s, sel.index), LAMBDA s1 :
               IF \/ s1.inputs_[sel.index].at_eof
                  \/ ReaderAtEnd(readers[sel.index], s1.inputs_[sel.index].pos)
               THEN PickLoop(mark_input_eof(s1, sel.index), output, blocked_time, prev_index)
               ELSE PickFinish(s1, output, prev_index, sel.index, "OK")))

\* pick_next_input(): returns the state and the status.
pick_next_input(s, output, blocked_time) ==
    PickLoop(acquire_scoped_sched_lock_if_necessary(s), output, blocked_time,
             s.outputs_[output].cur_input)

\* ------------------------------------------------------------------------
\* Markers.
\* ------------------------------------------------------------------------
\* The unschedule request shared by the _DIRECT_THREAD_SWITCH and
\* _SYSCALL_UNSCHEDULE cases of process_marker().
UnscheduleRequest(s, input, output) ==
    IF s.inputs_[input].skip_next_unscheduled
    THEN [s EXCEPT !.inputs_[input].skip_next_unscheduled = FALSE]
    ELSE IF s.inputs_[input].syscall_timeout_arg > 0
    THEN [s EXCEPT !.inputs_[input].unscheduled = TRUE,
                   !.inputs_[input].blocked_time =
                       scale_blocked_time(s, s.inputs_[input].syscall_timeout_arg),
                   !.inputs_[input].blocked_start_time = get_output_time(s, output)]
    ELSE [s EXCEPT !.inputs_[input].unscheduled = TRUE]

\* A slip in the schedule request: the timeout of a target that waits in
\* the ready queue is kept.
ScheduleTargetKeepsTimeout(s, target) ==
    IF s.inputs_[target].unscheduled
    THEN Let([s EXCEPT !.inputs_[target].unscheduled = FALSE], LAMBDA s1 :
            IF target \in s1.unscheduled_priority_
            THEN [add_to_ready_queue(s1, target)
                     EXCEPT !.unscheduled_priority_ = @ \ {target}]
            ELSE s1)
    ELSE [s EXCEPT !.inputs_[target].skip_next_unscheduled = TRUE]

\* The part of the _SYSCALL_SCHEDULE case of process_marker() that runs
\* under sched_lock_ and the lock of the target.
ScheduleTarget(s, target) ==
    IF s.inputs_[target].unscheduled
    THEN Let([s EXCEPT !.inputs_[target].unscheduled = FALSE], LAMBDA s1 :
            IF target \in s1.unscheduled_priority_
            THEN [add_to_ready_queue(s1, target)
                     EXCEPT !.unscheduled_priority_ = @ \ {target}]
            ELSE IF /\ target \in s1.ready_priority_
                    /\ s1.inputs_[target].blocked_time > 0
            THEN [s1 EXCEPT !.num_blocked_ = @ - 1,
                            !.inputs_[target].blocked_time = 0]
            ELSE s1)
    ELSE [s EXCEPT !.inputs_[target].skip_next_unscheduled = TRUE]

\* process_marker()
process_marker(s, input, output, record) ==
    Let(get_last_timestamp(readers[input], s.inputs_[input].pos), LAMBDA ts :
    CASE record.k = "syscall" ->
             [s EXCEPT !.inputs_[input].processing_syscall = TRUE,
                       !.inputs_[input].pre_syscall_timestamp = ts]
      [] record.k = "maybe_blocking" ->
             [s EXCEPT !.inputs_[input].processing_maybe_blocking_syscall = TRUE,
                       !.inputs_[input].pre_syscall_timestamp = ts]
      [] record.k = "context_switch_start" ->
             [s EXCEPT !.outputs_[output].in_context_switch_code = TRUE,
                       !.outputs_[output].in_kernel_code = TRUE]
      [] record.k = "syscall_trace_start" ->
             [s EXCEPT !.outputs_[output].in_kernel_code = TRUE]
      [] record.k = "context_switch_end" ->
             [s EXCEPT !.outputs_[output].hit_switch_code_end = TRUE,
                       !.outputs_[output].in_kernel_code = FALSE]
      [] record.k = "syscall_trace_end" ->
             [s EXCEPT !.outputs_[output].in_kernel_code = FALSE]
      [] record.k = "direct_switch" ->
             IF ~s.options_.honor_direct_switches THEN s
             ELSE Let(IncStat(s, output, "DIRECT_SWITCH_ATTEMPTS"), LAMBDA s1 :
                  Let(tid2input(record.v), LAMBDA target :
                  Let(IF target = INVALID_INPUT_ORDINAL THEN s1
                      ELSE [s1 EXCEPT !.inputs_[input].switch_to_input = target],
                      LAMBDA s2 :
                     UnscheduleRequest(s2, input, output))))
      [] record.k = "arg_timeout" ->
             [s EXCEPT !.inputs_[input].syscall_timeout_arg = record.v]
      [] record.k = "unschedule" ->
             IF ~s.options_.honor_direct_switches THEN s
             ELSE UnscheduleRequest(s, input, output)
      [] record.k = "schedule" ->
             IF ~s.options_.honor_direct_switches THEN s
             ELSE Let(tid2input(record.v), LAMBDA target :
                  IF target = INVALID_INPUT_ORDINAL THEN s
                  ELSE LockInput(
                           ScheduleTarget(
                               acquire_scoped_sched_lock_if_necessary(
                                   UnlockInput(s, input)),
                               target),
                           input))
      [] OTHER -> s)

\* ------------------------------------------------------------------------
\* next_record()
\* ------------------------------------------------------------------------
\* The syscall handling of next_record() at an instruction boundary
\* (MAP_TO_ANY_OUTPUT): returns the state, need_new_input and blocked_time.
SyscallBoundary(s, output, input, record) ==
    LET inp == s.inputs_[input] IN
    IF /\ inp.processing_syscall \/ inp.processing_maybe_blocking_syscall
       /\ record_type_is_instr_boundary(record)
    THEN Let(syscall_incurs_switch(s, input), LAMBDA inc :
         Let(\/ inp.switch_to_input # INVALID_INPUT_ORDINAL
             \/ inp.blocked_time > 0
             \/ inp.unscheduled
             \/ inc.switch,
             LAMBDA need :
         Let(IF inp.switch_to_input # INVALID_INPUT_ORDINAL THEN 0
             ELSE IF inp.blocked_time > 0 THEN inp.blocked_time
             ELSE IF inp.unscheduled THEN 0
             ELSE inc.blocked_time,
             LAMBDA blocked_time :
            [s |-> [s EXCEPT !.inputs_[input].processing_syscall = FALSE,
                             !.inputs_[input].processing_maybe_blocking_syscall = FALSE,
                             !.inputs_[input].pre_syscall_timestamp = 0,
                             !.inputs_[input].syscall_timeout_arg = 0],
             need_new_input |-> need, blocked_time |-> blocked_time])))
    ELSE [s |-> s, need_new_input |-> FALSE, blocked_time |-> 0]

\* The hit_switch_code_end handling of next_record().
SwitchCodeEnd(s, output, input, cur_time) ==
    IF s.outputs_[output].hit_switch_code_end
    THEN [s EXCEPT !.outputs_[output].in_context_switch_code = FALSE,
                   !.outputs_[output].hit_switch_code_end = FALSE,
                   !.inputs_[input].prev_time_in_quantum =
                       IF s.options_.quantum_unit = "QUANTUM_TIME" THEN cur_time ELSE @]
    ELSE s

\* The quantum accounting of next_record(): returns the state, whether the
\* input is preempted, the prior prev_time_in_quantum and whether the time
\* is invalid.
QuantumCheck(s, output, input, record, cur_time) ==
    LET inp == s.inputs_[input] IN
    IF /\ s.options_.quantum_unit = "QUANTUM_INSTRUCTIONS"
       /\ record_type_is_instr_boundary(record)
       /\ ~s.outputs_[output].in_kernel_code
    THEN IF (inp.instrs_in_quantum + 1) % (UINT64_MAX + 1)
                > s.options_.quantum_duration_instrs
         THEN [s |-> [IncStat(s, output, "QUANTUM_PREEMPTS")
                         EXCEPT !.inputs_[input].instrs_in_quantum = 0],
               preempt |-> TRUE, prev_time_in_quantum |-> 0, invalid |-> FALSE]
         ELSE [s |-> [s EXCEPT !.inputs_[input].instrs_in_quantum =
                                   (@ + 1) % (UINT64_MAX + 1)],
               preempt |-> FALSE, prev_time_in_quantum |-> 0, invalid |-> FALSE]
    ELSE IF s.options_.quantum_unit = "QUANTUM_TIME"
    THEN IF cur_time = 0 \/ cur_time < inp.prev_time_in_quantum
         THEN [s |-> s, preempt |-> FALSE, prev_time_in_quantum |-> 0, invalid |-> TRUE]
         ELSE Let(inp.time_spent_in_quantum + (cur_time - inp.prev_time_in_quantum),
                  LAMBDA spent :
              Let([s EXCEPT !.inputs_[input].time_spent_in_quantum = spent,
                            !.inputs_[input].prev_time_in_quantum = cur_time],
                  LAMBDA s1 :
                 IF /\ spent >= s.options_.quantum_duration_us * s.options_.time_units_per_us
                    /\ record_type_is_instr_boundary(record)
                 THEN [s |-> [IncStat(s1, output, "QUANTUM_PREEMPTS")
                                 EXCEPT !.inputs_[input].time_spent_in_quantum = 0],
                       preempt |-> TRUE,
                       prev_time_in_quantum |-> inp.prev_time_in_quantum,
                       invalid |-> FALSE]
                 ELSE [s |-> s1, preempt |-> FALSE,
                       prev_time_in_quantum |-> inp.prev_time_in_quantum,
                       invalid |-> FALSE]))
    ELSE [s |-> s, preempt |-> FALSE, prev_time_in_quantum |-> 0, invalid |-> FALSE]

\* History: the position of the marker that unscheduled the input with no
\* timeout.
NoteUnschedule(before, after, input, record) ==
    IF /\ record.k \in {"unschedule", "direct_switch"}
       /\ ~before.inputs_[input].unscheduled
       /\ after.inputs_[input].unscheduled
    THEN [after EXCEPT !.hist.unsched_at[input] =
             IF record.k = "unschedule" /\ after.inputs_[input].blocked_time = 0
             THEN record.ord ELSE 0]
    ELSE after

\* The MAP_TO_ANY_OUTPUT checks of next_record() on a candidate record.
ToAnyChecks(s, output, input, record, cur_time) ==
    Let(SyscallBoundary(s, output, input, record), LAMBDA sy :
    Let(SwitchCodeEnd(sy.s, output, input, cur_time), LAMBDA s1 :
    Let(IF record_type_is_marker(record)
        THEN NoteUnschedule(s1, process_marker(s1, input, output, record),
                            input, record)
        ELSE s1,
        LAMBDA s2 :
    Let(QuantumCheck(s2, output, input, record, cur_time), LAMBDA q :
       [s |-> q.s, need_new_input |-> sy.need_new_input \/ q.preempt,
        preempt |-> q.preempt, blocked_time |-> sy.blocked_time,
        prev_time_in_quantum |-> q.prev_time_in_quantum, invalid |-> q.invalid]))))

\* The MAP_AS_PREVIOUSLY check of next_record() on a candidate record: the
\* end of the current replay segment.
AsPreviouslyChecks(s, output, input, record) ==
    LET out == s.outputs_[output]
    IN
    Let(IF out.record_index >= Len(out.record) THEN FALSE
        ELSE Let(RecordAt(s, output, out.record_index), LAMBDA segment :
             IF segment.type = "SKIP" THEN TRUE
             ELSE IF segment.type = "SYNTHETIC_END" THEN FALSE
             ELSE /\ get_instr_ordinal(s, input) >= segment.stop
                  /\ \/ ~s.inputs_[input].cur_from_queue
                     \/ (segment.start = 0 /\ segment.stop = 0)),
        LAMBDA need :
       [s |-> s, need_new_input |-> need, preempt |-> FALSE, blocked_time |-> 0,
        prev_time_in_quantum |-> 0, invalid |-> FALSE])

\* The DEPENDENCY_TIMESTAMPS check of next_record() in the static mapping
\* modes: every timestamp record updates next_timestamp and asks for a new
\* input.
TimestampChecks(s, output, input, record) ==
    IF s.options_.deps = "DEPENDENCY_TIMESTAMPS" /\ record.k = "timestamp"
    THEN [s |-> [s EXCEPT !.inputs_[input].next_timestamp = record.v],
          need_new_input |-> TRUE, preempt |-> FALSE, blocked_time |-> 0,
          prev_time_in_quantum |-> 0, invalid |-> FALSE]
    ELSE [s |-> s, need_new_input |-> FALSE, preempt |-> FALSE, blocked_time |-> 0,
          prev_time_in_quantum |-> 0, invalid |-> FALSE]

\* The per-mapping checks of next_record() on a candidate record.
MappingChecks(s, output, input, record, cur_time) ==
    IF s.options_.mapping = "MAP_AS_PREVIOUSLY"
    THEN AsPreviouslyChecks(s, output, input, record)
    ELSE IF s.options_.mapping = "MAP_TO_ANY_OUTPUT"
    THEN ToAnyChecks(s, output, input, record, cur_time)
    ELSE TimestampChecks(s, output, input, record)

\* The end of next_record(): the record is handed to the caller.  The
\* history notes the delivery.
Deliver(s, output, input, record) ==
    [s |-> [s EXCEPT !.outputs_[output].last_record = record,
                     !.outputs_[output].cur_instr_count_ =
                         IF record_type_is_instr_boundary(record) THEN @ + 1 ELSE @,
                     !.hist.got[input] = Append(@, record.ord),
                     !.hist.delivered[input] =
                         Append(@, [k |-> record.k, v |-> record.v, ord |-> record.ord]),
                     !.hist.log[output] = Append(@, <<input, record.ord>>),
                     !.hist.pending[input] = IF @ = record.ord THEN 0 ELSE @,
                     !.hist.run[output].n =
                         IF record_type_is_instr(record) THEN @ + 1 ELSE @],
     status |-> "OK"]

\* History: no input is running on the output.
NoRun == [input |-> INVALID_INPUT_ORDINAL, n |-> 0, c0 |-> 0, nop |-> FALSE]

\* History: the turn of an input on an output begins with the first
\* candidate record the output reads from it; c0 is the quantum count the
\* input brings in.
RunStart(s, output, input) ==
    IF s.hist.run[output].input = input THEN s
    ELSE [s EXCEPT !.hist.run[output] =
             [input |-> input, n |-> 0,
              c0 |-> s.inputs_[input].instrs_in_quantum, nop |-> FALSE]]

\* History: the outcome of a switch request for the candidate record, made
\* with (preempt) or without a quantum preemption; switched is whether the
\* output left the input.
NoteSwitch(s, output, input, record, preempt, switched, to_input) ==
    LET run == s.hist.run[output]
    IN
    Let(IF preempt
        THEN [s EXCEPT !.hist.npreempt[output] = @ + 1] ELSE s,
        LAMBDA s1 :
    Let(IF preempt /\ switched
        THEN [s1 EXCEPT !.hist.pending[input] = record.ord] ELSE s1,
        LAMBDA s2 :
    Let(IF preempt /\ switched /\ to_input
        THEN [s2 EXCEPT !.hist.last_preempt =
                 [valid |-> TRUE, output |-> output, input |-> input,
                  n |-> run.n, c0 |-> run.c0, nop |-> run.nop,
                  ord |-> record.ord]]
        ELSE s2,
        LAMBDA s3 :
       IF switched THEN [s3 EXCEPT !.hist.run[output] = NoRun]
       ELSE IF preempt THEN [s3 EXCEPT !.hist.run[output].nop = TRUE]
       ELSE s3)))

\* The offset of the quantum counters of the outgoing input when next_record()
\* switches without a preempt.  The history notes a decrement that finds
\* instrs_in_quantum at zero, against the assertion before it.
QuantumOffset(s, prev_input, record, chk, cur_time) ==
    IF ~chk.preempt /\ s.options_.mapping = "MAP_TO_ANY_OUTPUT"
    THEN IF /\ s.options_.quantum_unit = "QUANTUM_INSTRUCTIONS"
            /\ record_type_is_instr_boundary(record)
         THEN [s EXCEPT !.inputs_[prev_input].instrs_in_quantum = USub(@, 1),
                        !.hist.offset_at_zero =
                            @ \/ s.inputs_[prev_input].instrs_in_quantum = 0]
         ELSE IF s.options_.quantum_unit = "QUANTUM_TIME"
         THEN [s EXCEPT !.inputs_[prev_input].time_spent_in_quantum =
                            USub(@, cur_time - chk.prev_time_in_quantum)]
         ELSE s
    ELSE s

\* The head of the loop of next_record(): the next candidate record of the
\* output's input, from the input's queue or its reader, picking another
\* input when the current one is at its end.
RECURSIVE ReadCandidate(_, _, _)
ReadCandidate(s, output, input) ==
    Let(InitReader([s EXCEPT !.inputs_[input].cur_from_queue = FALSE], input), LAMBDA s0 :
    Let(s0.inputs_[input], LAMBDA inp :
       IF inp.queue # <<>>
       THEN [more |-> TRUE,
             s |-> [s0 EXCEPT !.inputs_[input].queue = Tail(@),
                              !.inputs_[input].cur_from_queue = TRUE],
             record |-> Head(inp.queue)]
       ELSE Let(IF inp.needs_advance /\ ~inp.at_eof
                THEN [s0 EXCEPT !.inputs_[input].pos = @ + 1]
                ELSE [s0 EXCEPT !.inputs_[input].needs_advance = TRUE],
                LAMBDA s1 :
               IF inp.at_eof \/ ReaderAtEnd(readers[input], s1.inputs_[input].pos)
               THEN Let(pick_next_input(
                            UnlockInput([mark_input_eof(s1, input)
                                            EXCEPT !.hist.run[output] = NoRun], input),
                            output, 0),
                        LAMBDA p :
                       IF p.status \notin {"OK", "SKIPPED"}
                       THEN [more |-> FALSE, s |-> p.s, status |-> p.status]
                       ELSE Let(LockInput(p.s, p.s.outputs_[output].cur_input),
                                LAMBDA s2 :
                               IF p.status = "SKIPPED"
                               THEN ReadCandidate(
                                        [s2 EXCEPT
                                            !.inputs_[s2.outputs_[output].cur_input]
                                                .needs_advance = FALSE],
                                        output, s2.outputs_[output].cur_input)
                               ELSE ReadCandidate(s2, output,
                                                  s2.outputs_[output].cur_input)))
               ELSE [more |-> TRUE, s |-> s1,
                     record |-> [k |-> readers[input].recs[s1.inputs_[input].pos].k,
                                 v |-> readers[input].recs[s1.inputs_[input].pos].v,
                                 ord |-> s1.inputs_[input].pos,
                                 input |-> input]])))

\* A slip in taking the candidate back: the front of the queue is taken.
TakeBackCandidateFront(queue) == [record |-> Head(queue), queue |-> Tail(queue)]

\* next_record() gets its candidate record back from the queue when the
\* output stays on the input.
TakeBackCandidate(queue) ==
    [record |-> LastOf(queue), queue |-> SubSeq(queue, 1, Len(queue) - 1)]

\* The end of the while(true) loop of next_record(): the region of interest
\* of the input is advanced before the record is handed over.
RECURSIVE NextRecordLoop(_, _, _, _)
RegionThenDeliver(s, output, input, record, cur_time) ==
    IF /\ s.inputs_[input].needs_roi
       /\ s.options_.mapping # "MAP_AS_PREVIOUSLY"
       /\ readers[input].regions_of_interest # <<>>
    THEN Let(advance_region_of_interest(s, output, record, input), LAMBDA a :
            IF a.status = "SKIPPED"
            THEN NextRecordLoop([a.s EXCEPT !.inputs_[input].needs_roi = FALSE,
                                            !.inputs_[input].needs_advance = FALSE],
                                output, input, cur_time)
            ELSE IF a.status # "OK" THEN [s |-> a.s, status |-> a.status]
            ELSE Deliver(a.s, output, input, a.record))
    ELSE Deliver([s EXCEPT !.inputs_[input].needs_roi = TRUE], output, input, record)

\* The while(true) loop of next_record().
NextRecordLoop(s, output, cur, cur_time) ==
    Let(ReadCandidate(s, output, cur), LAMBDA c :
    IF ~c.more THEN [s |-> c.s, status |-> c.status]
    ELSE
    Let(c.record, LAMBDA record :
    Let(record.input, LAMBDA input :
    Let(RunStart(c.s, output, input), LAMBDA s0 :
    Let(IF s0.inputs_[input].instrs_pre_read > 0 /\ record_type_is_instr(record)
        THEN [s0 EXCEPT !.inputs_[input].instrs_pre_read = @ - 1] ELSE s0,
        LAMBDA s1 :
    Let(MappingChecks(s1, output, input, record, cur_time), LAMBDA chk :
       IF chk.invalid THEN [s |-> chk.s, status |-> "INVALID"]
       ELSE IF ~chk.need_new_input
       THEN RegionThenDeliver(chk.s, output, input, record, cur_time)
       ELSE Let([chk.s EXCEPT
                    !.inputs_[input].queue = Append(@, record),
                    !.hist.pushed_behind[input] =
                        @ \/ chk.s.inputs_[input].queue # <<>>],
                LAMBDA s2 :
            Let(pick_next_input(UnlockInput(s2, input), output, chk.blocked_time),
                LAMBDA p :
            Let(p.s.outputs_[output].cur_input # input, LAMBDA switched :
            Let(NoteSwitch(p.s, output, input, record, chk.preempt, switched,
                           p.status = "OK"),
                LAMBDA pu :
               IF p.status \notin {"OK", "WAIT", "SKIPPED"}
               THEN [s |-> pu, status |-> p.status]
               ELSE
               Let(LockInput(pu, input), LAMBDA ps :
               IF switched
               THEN Let(QuantumOffset(ps, input, record, chk, cur_time), LAMBDA s3 :
                       IF p.status = "WAIT" THEN [s |-> s3, status |-> "WAIT"]
                       ELSE NextRecordLoop(
                                UnlockInput(LockInput(s3, s3.outputs_[output].cur_input),
                                            input),
                                output, s3.outputs_[output].cur_input, cur_time))
               ELSE IF p.status = "SKIPPED"
               THEN NextRecordLoop([ps EXCEPT !.inputs_[input].needs_advance = FALSE],
                                   output, input, cur_time)
               ELSE Let(TakeBackCandidate(ps.inputs_[input].queue), LAMBDA back :
                    Let([ps EXCEPT !.inputs_[input].queue = back.queue], LAMBDA s3 :
                       RegionThenDeliver(s3, output, input, back.record,
                                         cur_time))))))))))))))

\* speculator_t::next_record() for nops: the record at pc is a synthetic
\* instruction, and pc moves to the next instruction.
speculator_next_record(pc) ==
    [record |-> [k |-> "instr", v |-> pc, ord |-> 0, input |-> INVALID_INPUT_ORDINAL],
     pc |-> pc + 1]

\* The speculation branch of next_record(); hist.returned is the record
\* handed to the caller.
Speculate(s, output) ==
    Let(speculator_next_record(s.outputs_[output].speculate_pc), LAMBDA sp :
       [s EXCEPT !.outputs_[output].prev_speculate_pc = s.outputs_[output].speculate_pc,
                 !.outputs_[output].speculate_pc = sp.pc,
                 !.outputs_[output].cur_instr_count_ =
                     IF record_type_is_instr_boundary(sp.record) THEN @ + 1 ELSE @,
                 !.hist.returned[output] = sp.record])

\* The part of next_record() that runs once the output has an input.
NextRecordWithInput(s, output, cur_time) ==
    LET cur == s.outputs_[output].cur_input IN
    IF cur < 0
    THEN eof_or_idle_unlocked(s, output, cur)
    ELSE Let(LockInput(IF s.inputs_[cur].prev_time_in_quantum = 0
                       THEN [s EXCEPT !.inputs_[cur].prev_time_in_quantum = cur_time]
                       ELSE s,
                       cur),
             LAMBDA s1 :
            IF s1.outputs_[output].speculation_stack # <<>>
            THEN [s |-> Speculate(s1, output), status |-> "OK"]
            ELSE NextRecordLoop(s1, output, cur, cur_time))

\* next_record(): returns the state and the status.
next_record(s, output, cur_time) ==
    LET s1 == [s EXCEPT !.outputs_[output].cur_time = cur_time]
    IN
    Let(s1.outputs_[output], LAMBDA out :
       IF ~out.active THEN [s |-> s1, status |-> "IDLE"]
       ELSE IF out.waiting
       THEN IF /\ s.options_.mapping = "MAP_AS_PREVIOUSLY"
               /\ out.wait_start_time > 0
               /\ USub(cur_time, out.wait_start_time)
                      < RecordAt(s1, output, out.record_index).start
            THEN [s |-> s1, status |-> "WAIT"]
            ELSE Let(IF s.options_.mapping = "MAP_AS_PREVIOUSLY"
                        /\ out.wait_start_time > 0
                     THEN [s1 EXCEPT !.outputs_[output].wait_start_time = 0]
                     ELSE s1,
                     LAMBDA s2 :
                 Let(pick_next_input(s2, output, 0), LAMBDA p :
                    IF p.status \notin {"OK", "SKIPPED"} THEN p
                    ELSE NextRecordWithInput(
                             [p.s EXCEPT !.outputs_[output].waiting = FALSE],
                             output, cur_time)))
       ELSE NextRecordWithInput(s1, output, cur_time))

\* A slip in unread_last_record(): the speculation stack is not looked at.
unread_last_recordSpeculating(s, output) ==
    IF s.options_.record_reader THEN [s |-> s, status |-> "NOT_IMPLEMENTED"]
    ELSE IF s.outputs_[output].last_record = InvalidRecord
    THEN [s |-> s, status |-> "INVALID"]
    ELSE [s |-> [s EXCEPT !.inputs_[s.outputs_[output].cur_input].queue =
                              Append(@, s.outputs_[output].last_record),
                          !.outputs_[output].last_record = InvalidRecord],
          status |-> "OK"]

\* unread_last_record() of scheduler_tmpl_t<memref_t, reader_t>, and its
\* specialization for trace_entry_t records; the caller passes an output that
\* has an input (the source indexes inputs_ with the output's cur_input).
unread_last_record(s, output) ==
    IF s.options_.record_reader THEN [s |-> s, status |-> "NOT_IMPLEMENTED"]
    ELSE IF s.outputs_[output].last_record = InvalidRecord
    THEN [s |-> s, status |-> "INVALID"]
    ELSE IF s.outputs_[output].speculation_stack # <<>>
    THEN [s |-> s, status |-> "INVALID"]
    ELSE Let(s.outputs_[output].last_record, LAMBDA record :
         Let(s.outputs_[output].cur_input, LAMBDA input :
         Let([s EXCEPT !.inputs_[input].queue = Append(@, record)], LAMBDA s1 :
         Let(IF /\ s.options_.quantum_unit = "QUANTUM_INSTRUCTIONS"
                /\ record_type_is_instr(record)
             THEN [s1 EXCEPT !.inputs_[input].instrs_in_quantum = USub(@, 1)]
             ELSE s1,
             LAMBDA s2 :
            [s |-> [s2 EXCEPT !.outputs_[output].last_record = InvalidRecord,
                              !.outputs_[output].cur_instr_count_ =
                                  IF record_type_is_instr(record) THEN @ - 1 ELSE @],
             status |-> "OK"]))))

\* The address stored for the outer layer of the speculation stack.
SPECULATION_OUTER_ADDRESS == 0

\* start_speculation(); the top of the stack is the end of the sequence.
start_speculation(s, output, start_address, queue_current_record) ==
    LET outinfo == s.outputs_[output] IN
    IF /\ outinfo.speculation_stack = <<>>
       /\ queue_current_record
       /\ outinfo.last_record = InvalidRecord
    THEN [s |-> s, status |-> "INVALID"]
    ELSE Let(IF outinfo.speculation_stack = <<>>
             THEN Let(IF queue_current_record
                      THEN [s EXCEPT !.inputs_[outinfo.cur_input].queue =
                                         Append(@, outinfo.last_record)]
                      ELSE s,
                      LAMBDA q :
                     [q EXCEPT !.outputs_[output].speculation_stack =
                                   Append(@, SPECULATION_OUTER_ADDRESS)])
             ELSE [s EXCEPT !.outputs_[output].speculation_stack =
                               Append(@, IF queue_current_record
                                         THEN outinfo.prev_speculate_pc
                                         ELSE outinfo.speculate_pc)],
             LAMBDA s1 :
            [s |-> [s1 EXCEPT !.outputs_[output].prev_speculate_pc = outinfo.speculate_pc,
                              !.outputs_[output].speculate_pc = start_address],
             status |-> "OK"])

\* stop_speculation()
stop_speculation(s, output) ==
    LET outinfo == s.outputs_[output] IN
    IF outinfo.speculation_stack = <<>>
    THEN [s |-> s, status |-> "INVALID"]
    ELSE [s |-> [s EXCEPT !.outputs_[output].speculate_pc =
                              IF Len(outinfo.speculation_stack) > 1
                              THEN LastOf(outinfo.speculation_stack) ELSE @,
                          !.outputs_[output].speculation_stack =
                              SubSeq(@, 1, Len(@) - 1)],
          status |-> "OK"]

\* A slip in set_output_active(): the deactivated output keeps its input.
set_output_activeKeepsInput(s, output, active) ==
    IF s.options_.mapping # "MAP_TO_ANY_OUTPUT"
    THEN [s |-> s, status |-> "INVALID"]
    ELSE IF s.outputs_[output].active = active
    THEN [s |-> s, status |-> "OK"]
    ELSE [s |-> [s EXCEPT !.outputs_[output].active = active,
                          !.outputs_[output].waiting = IF active THEN TRUE ELSE @],
          status |-> "OK"]

\* set_output_active(); the caller passes an output that has an input when it
\* deactivates it (the source indexes inputs_ with the output's cur_input).
set_output_active(s, output, active) ==
    IF s.options_.mapping # "MAP_TO_ANY_OUTPUT"
    THEN [s |-> s, status |-> "INVALID"]
    ELSE IF s.outputs_[output].active = active
    THEN [s |-> s, status |-> "OK"]
    ELSE Let([s EXCEPT !.outputs_[output].active = active], LAMBDA s1 :
            IF ~active
            THEN Let(s1.outputs_[output].cur_input, LAMBDA cur :
                 Let(IF s1.inputs_[cur].queue = <<>>
                     THEN [s1 EXCEPT !.inputs_[cur].switching_pre_instruction = TRUE]
                     ELSE s1,
                     LAMBDA s2 :
                    [s |-> set_cur_input(s2, output, INVALID_INPUT_ORDINAL),
                     status |-> "OK"]))
            ELSE [s |-> [s1 EXCEPT !.outputs_[output].waiting = TRUE],
                  status |-> "OK"])

\* ------------------------------------------------------------------------
\* Construction: init() and set_initial_schedule().
\* ------------------------------------------------------------------------
\* Whether set_initial_schedule() gathers the first timestamp of each input.
gather_timestamps(opt, rds) ==
    \/ /\ opt.mapping \in {"MAP_AS_PREVIOUSLY", "MAP_TO_ANY_OUTPUT"}
       /\ opt.deps = "DEPENDENCY_TIMESTAMPS"
    \/ /\ opt.mapping = "MAP_TO_RECORDED_OUTPUT"
       /\ Cardinality(DOMAIN rds) > 1

\* The number of records get_initial_input_content() queues: the leading
\* markers up to the first instruction, unschedule marker, or timestamp once
\* a timestamp has been found.
RECURSIVE ReadAheadCount(_, _, _)
ReadAheadCount(recs, n, found_timestamp) ==
    IF n >= Len(recs) THEN n
    ELSE IF recs[n + 1].k \in {"instr", "unschedule"} THEN n
    ELSE IF recs[n + 1].k = "timestamp"
    THEN IF found_timestamp THEN n ELSE ReadAheadCount(recs, n + 1, TRUE)
    ELSE ReadAheadCount(recs, n + 1, found_timestamp)

\* get_initial_input_content() and process_next_initial_record() on one
\* input.
get_initial_input_content(opt, rd, i, gather) ==
    Let(ReadAheadCount(rd.recs, 0, ~gather), LAMBDA n :
    Let(IF n < Len(rd.recs) THEN rd.recs[n + 1].k ELSE "none", LAMBDA stop :
    Let(/\ stop = "unschedule"
        /\ opt.honor_direct_switches
        /\ opt.mapping # "MAP_AS_PREVIOUSLY",
        LAMBDA unsched :
       [NewInput EXCEPT
           !.needs_init = FALSE,
           !.pos = n + 1,
           !.queue = [j \in 1 .. n |-> [k |-> rd.recs[j].k, v |-> rd.recs[j].v,
                                        ord |-> j, input |-> i]],
           !.instrs_pre_read = IF stop = "instr" THEN 1 ELSE 0,
           !.next_timestamp = IF gather THEN LastTimestamp(rd.recs, n) ELSE 0,
           !.unscheduled = unsched,
           !.skip_next_unscheduled = unsched])))

\* The history kept beside the scheduler state: what was delivered and the
\* events the properties speak of.
NewHistory(opt, rds) ==
    [got |-> [i \in DOMAIN rds |-> <<>>],
     log |-> [o \in 0 .. (opt.output_count - 1) |-> <<>>],
     status |-> [o \in 0 .. (opt.output_count - 1) |-> "NONE"],
     eof_polls |-> [o \in 0 .. (opt.output_count - 1) |-> 0],
     flushes |-> <<>>,
     pushed_behind |-> [i \in DOMAIN rds |-> FALSE],
     unsched_at |-> [i \in DOMAIN rds |-> 0],
     pending |-> [i \in DOMAIN rds |-> 0],
     run |-> [o \in 0 .. (opt.output_count - 1) |-> NoRun],
     npreempt |-> [o \in 0 .. (opt.output_count - 1) |-> 0],
     last_preempt |-> [valid |-> FALSE, output |-> 0, input |-> 0, n |-> 0,
                       c0 |-> 0, nop |-> FALSE, ord |-> 0],
     phase |-> "run",
     first_log |-> <<>>,
     api |-> [op |-> "none", output |-> 0, status |-> "NONE", n |-> 0,
              fresh |-> FALSE, record |-> InvalidRecord],
     returned |-> [o \in 0 .. (opt.output_count - 1) |-> InvalidRecord],
     instrs_before |-> [o \in 0 .. (opt.output_count - 1) |-> 0],
     skips |-> [i \in DOMAIN rds |-> <<>>],
     dropped |-> [i \in DOMAIN rds |-> FALSE],
     offset_at_zero |-> FALSE,
     delivered |-> [i \in DOMAIN rds |-> <<>>],
     held |-> {}, inverted |-> FALSE,
     inserted |-> [i \in DOMAIN rds |-> 0], insertions |-> <<>>,
     switched_in |-> [i \in DOMAIN rds |-> <<>>]]

\* get_initial_input_content() on an input that has regions of interest:
\* the input jumps to its first region and nothing is read ahead.
StartsInRegion(opt, rd) ==
    rd.regions_of_interest # <<>> /\ opt.mapping # "MAP_AS_PREVIOUSLY"

\* The state init() builds before get_initial_input_content() has moved the
\* inputs with regions of interest and before set_initial_schedule().
Constructed(opt, rds, records) ==
    [options_ |-> opt,
     inputs_ |-> [i \in DOMAIN rds |->
                     [(IF opt.read_inputs_in_init /\ ~StartsInRegion(opt, rds[i])
                       THEN get_initial_input_content(opt, rds[i], i,
                                                      gather_timestamps(opt, rds))
                       ELSE NewInput)
                         EXCEPT !.binding = rds[i].binding,
                                !.priority = rds[i].priority]],
     outputs_ |-> [o \in 0 .. (opt.output_count - 1) |->
                      [NewOutput EXCEPT !.record = records[o]]],
     ready_priority_ |-> {}, unscheduled_priority_ |-> {},
     ready_counter_ |-> 0, unscheduled_counter_ |-> 0, num_blocked_ |-> 0,
     live_input_count_ |-> Cardinality(DOMAIN rds),
     live_replay_output_count_ |-> 0,
     hist |-> NewHistory(opt, rds)]

\* The part of get_initial_input_content() for the inputs with regions of
\* interest: advance_region_of_interest() without an output.  (A region that
\* starts past the end of the trace makes init() fail; the instances
\* explored have none.)
RECURSIVE AdvanceInitialRegions(_, _)
AdvanceInitialRegions(s, i) ==
    IF i \notin DOMAIN s.inputs_ THEN s
    ELSE IF ~(s.options_.read_inputs_in_init /\ StartsInRegion(s.options_, readers[i]))
    THEN AdvanceInitialRegions(s, i + 1)
    ELSE Let(advance_region_of_interest(s, INVALID_OUTPUT_ORDINAL, InvalidRecord, i),
             LAMBDA a :
            AdvanceInitialRegions(
                [a.s EXCEPT !.inputs_[i].next_timestamp =
                                get_last_timestamp(readers[i], a.s.inputs_[i].pos)],
                i + 1))

\* set_initial_schedule(), MAP_TO_ANY_OUTPUT: every input enters the ready
\* queue, then each output pops its first input.
RECURSIVE AddAllToReady(_, _)
AddAllToReady(s, i) ==
    IF i \notin DOMAIN s.inputs_ THEN s
    ELSE AddAllToReady(add_to_ready_queue(s, i), i + 1)

RECURSIVE PopInitial(_, _)
PopInitial(s, o) ==
    IF o \notin DOMAIN s.outputs_ THEN s
    ELSE Let(pop_from_ready_queue(s, o), LAMBDA p :
            PopInitial(set_cur_input(p.s, o, p.new_input), o + 1))

\* set_initial_schedule(), MAP_TO_CONSISTENT_OUTPUT: round-robin static
\* assignment.
RECURSIVE AssignConsistent(_, _)
AssignConsistent(s, i) ==
    IF i \notin DOMAIN s.inputs_ THEN s
    ELSE Let(i % s.options_.output_count, LAMBDA index :
         Let(IF s.outputs_[index].input_indices = <<>>
             THEN set_cur_input(s, index, i) ELSE s,
             LAMBDA s1 :
            AssignConsistent(
                [s1 EXCEPT !.outputs_[index].input_indices = Append(@, i)], i + 1)))

\* set_initial_schedule(), MAP_TO_RECORDED_OUTPUT without a traced schedule:
\* the single output starts on the input with the oldest timestamp.
AssignRecorded(s) ==
    IF Cardinality(DOMAIN s.inputs_) = 1 THEN set_cur_input(s, 0, 0)
    ELSE set_cur_input(s, 0,
             CHOOSE i \in DOMAIN s.inputs_ : \A j \in DOMAIN s.inputs_ :
                 \/ s.inputs_[i].next_timestamp < s.inputs_[j].next_timestamp
                 \/ /\ s.inputs_[i].next_timestamp = s.inputs_[j].next_timestamp
                    /\ i <= j)

\* read_recorded_schedule(): the initial input of each replaying output.
RECURSIVE read_recorded_schedule(_, _)
read_recorded_schedule(s, o) ==
    IF o \notin DOMAIN s.outputs_ THEN s
    ELSE LET rec == s.outputs_[o].record
         IN
         Let(IF rec = <<>>
             THEN [set_cur_input(s, o, INVALID_INPUT_ORDINAL)
                      EXCEPT !.outputs_[o].at_eof = TRUE]
             ELSE IF rec[1].type = "IDLE"
             THEN [set_cur_input(s, o, INVALID_INPUT_ORDINAL)
                      EXCEPT !.outputs_[o].waiting = TRUE,
                             !.outputs_[o].wait_start_time = 0]
             ELSE set_cur_input(s, o, rec[1].input),
             LAMBDA s1 :
            read_recorded_schedule(s1, o + 1))

\* The VERSION record init() writes at the head of each recorded schedule.
VersionRecord == [type |-> "VERSION", input |-> 0, start |-> 0, stop |-> 0, timestamp |-> 0]

\* init(): the scheduler state after construction with options opt over the
\* readers rds; sched is the schedule to replay under MAP_AS_PREVIOUSLY.
init(opt, rds, sched) ==
    Let([o \in 0 .. (opt.output_count - 1) |->
            IF opt.mapping = "MAP_AS_PREVIOUSLY" THEN sched[o]
            ELSE IF opt.schedule_record_ostream THEN <<VersionRecord>>
            ELSE <<>>],
        LAMBDA records :
    Let(AdvanceInitialRegions(Constructed(opt, rds, records), 0), LAMBDA s :
       IF opt.mapping = "MAP_AS_PREVIOUSLY"
       THEN read_recorded_schedule(
                [s EXCEPT !.live_replay_output_count_ = opt.output_count], 0)
       ELSE IF opt.mapping = "MAP_TO_CONSISTENT_OUTPUT"
       THEN AssignConsistent(s, 0)
       ELSE IF opt.mapping = "MAP_TO_RECORDED_OUTPUT"
       THEN AssignRecorded(s)
       ELSE PopInitial(AddAllToReady(s, 0), 0)))

\* ------------------------------------------------------------------------
\* The scheduler instances explored: options and input traces.
\* ------------------------------------------------------------------------
Fn0(seq) == [i \in 0 .. (Len(seq) - 1) |-> seq[i + 1]]

\* A reader over a trace in the current format, with timestamps bracketing
\* the system calls; binding and priority are the output_binding and the
\* priority of the thread's modifiers.
Reader(recs) ==
    [recs |-> recs, frequent_timestamps |-> TRUE, binding |-> {}, priority |-> 0,
     workload |-> 0,
     regions_of_interest |-> <<>>, past_the_end |-> [start |-> 0, stop |-> 0]]

DefaultOptions ==
    [mapping |-> "MAP_TO_ANY_OUTPUT", deps |-> "DEPENDENCY_IGNORE",
     output_count |-> 1,
     quantum_unit |-> "QUANTUM_INSTRUCTIONS",
     quantum_duration_instrs |-> 2, quantum_duration_us |-> 2,
     time_units_per_us |-> 1,
     block_time_multiplier_num |-> 1, block_time_multiplier_den |-> 1,
     block_time_max_us |-> 2,
     syscall_switch_threshold |-> 3, blocking_switch_threshold |-> 1,
     honor_direct_switches |-> TRUE,
     kernel_switch_reader |-> <<>>,
     read_inputs_in_init |-> TRUE,
     schedule_record_ostream |-> FALSE,
     record_reader |-> FALSE,
     assertions |-> FALSE]

\* Two compute-only threads under an instruction quantum.
QuantumTraces == <<<<INSTR, INSTR, INSTR>>, <<INSTR, INSTR>>>>

\* Three compute-only threads.
ThreeTraces == <<<<INSTR, INSTR, INSTR>>, <<INSTR, INSTR>>, <<INSTR, INSTR, INSTR>>>>

\* A thread that blocks in a system call beside a compute-only thread.
BlockingTraces ==
    <<<<INSTR, TS(1), SYSCALL, MAYBE_BLOCKING, TS(3), INSTR, INSTR, INSTR>>,
      <<INSTR, INSTR, INSTR>>>>

\* A thread alone that blocks in a system call.
LoneBlockingTraces == <<<<INSTR, TS(1), SYSCALL, MAYBE_BLOCKING, TS(3), INSTR>>>>

\* A thread that unschedules itself and is never resumed.
UnscheduleTraces == <<<<INSTR, SYSCALL, UNSCHEDULE, INSTR, INSTR>>, <<INSTR, INSTR>>>>

\* A thread that unschedules itself and is resumed by the other.
ScheduleTraces ==
    <<<<INSTR, SYSCALL, UNSCHEDULE, INSTR>>,
      <<INSTR, SYSCALL, SCHEDULE(TidOf(0)), INSTR>>>>

\* A thread that unschedules itself with a timeout.
TimeoutTraces ==
    <<<<INSTR, SYSCALL, ARG_TIMEOUT(1), UNSCHEDULE, INSTR>>, <<INSTR, INSTR>>>>

\* A thread that switches directly to the other.
DirectSwitchTraces ==
    <<<<INSTR, SYSCALL, DIRECT_SWITCH(TidOf(1)), INSTR>>, <<INSTR, INSTR>>>>

\* Two threads with headers and interleaved timestamps.
TimestampTraces ==
    <<<<MARKER, TS(1), MARKER, INSTR, TS(3), INSTR>>,
      <<MARKER, TS(2), INSTR, TS(4), INSTR>>>>

\* One scheduler instance: options, traces and the output counts tried.
Scenario(opt, traces, outs) ==
    {[opt |-> [opt EXCEPT !.output_count = n],
      rds |-> Fn0([i \in 1 .. Len(traces) |-> Reader(traces[i])])]
        : n \in {k \in outs : k <= NumOutputs /\ Len(traces) <= NumInputs}}

Scenarios ==
    Scenario(DefaultOptions, QuantumTraces, 1 .. NumOutputs)
    \cup Scenario(DefaultOptions, ThreeTraces, {1})
    \cup Scenario(DefaultOptions, BlockingTraces, {1, 2})
    \cup Scenario(DefaultOptions, LoneBlockingTraces, {2})
    \cup Scenario([DefaultOptions EXCEPT !.time_units_per_us = 2], UnscheduleTraces, {1, 2})
    \cup Scenario(DefaultOptions, ScheduleTraces, {1, 2})
    \cup Scenario(DefaultOptions, TimeoutTraces, {1})
    \cup Scenario(DefaultOptions, DirectSwitchTraces, {1})
    \cup Scenario([DefaultOptions EXCEPT !.quantum_unit = "QUANTUM_TIME"],
                  QuantumTraces, {1})
    \cup Scenario([DefaultOptions EXCEPT !.mapping = "MAP_TO_CONSISTENT_OUTPUT"],
                  QuantumTraces, {2})
    \cup Scenario([DefaultOptions EXCEPT !.mapping = "MAP_TO_RECORDED_OUTPUT",
                                         !.deps = "DEPENDENCY_TIMESTAMPS"],
                  TimestampTraces, {1})
    \cup Scenario([DefaultOptions EXCEPT !.schedule_record_ostream = TRUE],
                  QuantumTraces, {1})

\* The instances that record their schedule for a later replay over more
\* outputs than one.
RecordingScenarios ==
    Scenario([DefaultOptions EXCEPT !.schedule_record_ostream = TRUE],
             LoneBlockingTraces, {2})

\* ------------------------------------------------------------------------
\* The state machine.
\* ------------------------------------------------------------------------
\* The variables take the fields of the scheduler state s.
Becomes(s) ==
    /\ options_' = s.options_
    /\ inputs_' = s.inputs_
    /\ outputs_' = s.outputs_
    /\ ready_priority_' = s.ready_priority_
    /\ unscheduled_priority_' = s.unscheduled_priority_
    /\ ready_counter_' = s.ready_counter_
    /\ unscheduled_counter_' = s.unscheduled_counter_
    /\ num_blocked_' = s.num_blocked_
    /\ live_input_count_' = s.live_input_count_
    /\ live_replay_output_count_' = s.live_replay_output_count_

InitWith(sc) ==
    /\ readers = sc.rds
    /\ wall_clock = 1
    /\ Let(init(sc.opt, sc.rds, <<>>), LAMBDA s :
          /\ options_ = s.options_
          /\ inputs_ = s.inputs_
          /\ outputs_ = s.outputs_
          /\ ready_priority_ = s.ready_priority_
          /\ unscheduled_priority_ = s.unscheduled_priority_
          /\ ready_counter_ = s.ready_counter_
          /\ unscheduled_counter_ = s.unscheduled_counter_
          /\ num_blocked_ = s.num_blocked_
          /\ live_input_count_ = s.live_input_count_
          /\ live_replay_output_count_ = s.live_replay_output_count_
          /\ hist = s.hist
          /\ calls = [o \in DOMAIN s.outputs_ |-> 0])

Init == \E sc \in Scenarios : InitWith(sc)

\* The addresses that speculation runs over are below MaxPc.
MaxPc == 3

\* A caller that was told to wait or idle, or that reached EOF, calls
\* again only once the clock has moved.
MayCall(o) ==
    /\ \A p \in Outputs : hist.status[p] # "ABORTED"
    /\ outputs_[o].speculate_pc < MaxPc
    /\ \/ hist.status[o] \in {"NONE", "OK"}
       \/ outputs_[o].cur_time < wall_clock

\* A thread of the simulator calls next_record() on output o, passing the
\* wall-clock time; calls[o] is the parity of the calls made on o.
NextRecord(o) ==
    /\ MayCall(o)
    /\ Let(next_record(State, o, wall_clock), LAMBDA r :
          /\ Becomes(r.s)
          /\ hist' = [r.s.hist EXCEPT
                         !.held = {},
                         !.status[o] = r.status,
                         !.eof_polls[o] = IF hist.status[o] = "EOF" /\ @ < 2
                                          THEN @ + 1 ELSE @,
                         !.api.fresh = @ /\ hist.api.output # o,
                         !.instrs_before[o] =
                             IF r.status = "OK" /\ r.s.outputs_[o].cur_input >= 0
                             THEN inputs_[r.s.outputs_[o].cur_input].instrs_in_quantum
                             ELSE @])
    /\ calls' = [calls EXCEPT ![o] = 1 - @]
    /\ UNCHANGED <<readers, wall_clock>>

\* The wall clock advances.
Tick ==
    /\ wall_clock < MaxTime
    /\ wall_clock' = wall_clock + 1
    /\ UNCHANGED <<options_, readers, inputs_, outputs_, ready_priority_,
                   unscheduled_priority_, ready_counter_, unscheduled_counter_,
                   num_blocked_, live_input_count_, live_replay_output_count_, hist,
                   calls>>

\* write_recorded_schedule() closes each output's schedule with a footer;
\* read_recorded_schedule() on the replaying scheduler drops the version and
\* footer records.
RecordedSchedule(s) ==
    [o \in DOMAIN s.outputs_ |->
        Let(record_schedule_segment(s, o, "FOOTER", 0, 0, 0).outputs_[o].record,
            LAMBDA written :
           SelectSeq(written, LAMBDA r : r.type \notin {"VERSION", "FOOTER"}))]

\* Once every output of a recording run has reported EOF, the schedule is
\* written and a second scheduler replays it over the same traces.
StartReplay ==
    /\ Recording(State)
    /\ \A o \in Outputs : hist.status[o] = "EOF"
    /\ LET opt == [options_ EXCEPT !.mapping = "MAP_AS_PREVIOUSLY",
                                   !.schedule_record_ostream = FALSE]
       IN
       Let(init(opt, readers, RecordedSchedule(State)), LAMBDA s :
          /\ Becomes(s)
          /\ hist' = [s.hist EXCEPT !.phase = "replay", !.first_log = hist.log])
    /\ wall_clock' = 1
    /\ UNCHANGED <<readers, calls>>

Next ==
    \/ \E o \in Outputs : NextRecord(o)
    \/ Tick
    \/ StartReplay

Spec == Init /\ [][Next]_vars

\* Record, then replay.
ReplayInit == \E sc \in RecordingScenarios : InitWith(sc)

ReplayNext ==
    \/ \E o \in Outputs : NextRecord(o)
    \/ Tick
    \/ StartReplay

ReplaySpec == ReplayInit /\ [][ReplayNext]_vars

AllEOF == \A o \in Outputs : hist.status[o] = "EOF"

\* ------------------------------------------------------------------------
\* Inputs with regions of interest, recorded and replayed.
\* ------------------------------------------------------------------------
Range(start_instruction, stop_instruction) ==
    [start |-> start_instruction, stop |-> stop_instruction]

\* The thread modifiers give input i of the readers rds the regions.
WithRegions(rds, i, regions) == [rds EXCEPT ![i].regions_of_interest = regions]

\* A thread of one hundred instructions.
LongTrace == [j \in 1 .. 100 |-> INSTR]

\* A thread with a header and seven instructions beside a short thread.
RegionTraces ==
    <<<<MARKER, INSTR, INSTR, INSTR, INSTR, INSTR, INSTR, INSTR>>, <<INSTR, INSTR>>>>

\* The instances: the long thread with two regions, read from its start by
\* the first next_record(); the header-led thread with two regions, with
\* and without read-ahead in init(), recorded; the same with its last region
\* open-ended; and the short thread left out as times_of_interest leaves out
\* a thread (a region that starts at the largest ordinal).
RegionScenarios ==
    {[opt |-> [DefaultOptions EXCEPT !.read_inputs_in_init = FALSE],
      rds |-> WithRegions(Fn0(<<Reader(LongTrace)>>), 0,
                          <<Range(10, 20), Range(30, 40)>>)]}
    \cup {[opt |-> [DefaultOptions EXCEPT !.read_inputs_in_init = in_init,
                                          !.schedule_record_ostream = TRUE],
           rds |-> WithRegions(Fn0(<<Reader(RegionTraces[1]), Reader(RegionTraces[2])>>),
                               0, regions)]
             : in_init \in BOOLEAN,
               regions \in {<<Range(2, 3), Range(5, 6)>>,
                            <<Range(1, 2), Range(4, 0)>>,
                            <<Range(2, 2), Range(3, 4)>>}}
    \cup {[opt |-> [DefaultOptions EXCEPT !.output_count = 2,
                                          !.schedule_record_ostream = TRUE],
           rds |-> WithRegions(Fn0(<<Reader(RegionTraces[1]), Reader(RegionTraces[2])>>),
                               0, <<Range(2, 3), Range(5, 6)>>)]}
    \cup {[opt |-> [DefaultOptions EXCEPT !.read_inputs_in_init = in_init],
           rds |-> WithRegions(Fn0(<<Reader(RegionTraces[1]), Reader(RegionTraces[2])>>),
                               1, <<Range(UINT64_MAX, 0)>>)]
             : in_init \in BOOLEAN}

RegionInit == \E sc \in RegionScenarios : InitWith(sc)

RegionNext ==
    \/ \E o \in Outputs : NextRecord(o)
    \/ Tick
    \/ StartReplay

RegionSpec == RegionInit /\ [][RegionNext]_vars

\* Every output keeps calling next_record() and time keeps advancing: the
\* MAP_TO_ANY_OUTPUT instances under weak fairness of each output's calls and
\* of the clock.  The fairness of the calls is stated on the variable calls,
\* which next_record() steps change and no other step does.  Up to MaxTime
\* the clock moves freely; past it, it moves when every output has called at
\* the current time and waits for it.
FairScenarios ==
    {sc \in Scenarios : /\ sc.opt.mapping = "MAP_TO_ANY_OUTPUT"
                        /\ ~sc.opt.schedule_record_ostream}

FairInit == \E sc \in FairScenarios : InitWith(sc)

FairTimeLimit == MaxTime + 8

\* The change of calls that a call of next_record() on output o makes: a
\* step of Called(o) that changes calls is a step of NextRecord(o), and it
\* is enabled exactly when NextRecord(o) is.
Called(o) ==
    /\ o \in Outputs
    /\ MayCall(o)
    /\ calls' = [calls EXCEPT ![o] = 1 - @]

FairTick ==
    /\ wall_clock < FairTimeLimit
    /\ \/ wall_clock < MaxTime
       \/ /\ \A o \in Outputs : ~MayCall(o)
          /\ ~AllEOF
    /\ wall_clock' = wall_clock + 1
    /\ UNCHANGED <<options_, readers, inputs_, outputs_, ready_priority_,
                   unscheduled_priority_, ready_counter_, unscheduled_counter_,
                   num_blocked_, live_input_count_, live_replay_output_count_, hist,
                   calls>>

FairNext ==
    \/ \E o \in Outputs : NextRecord(o)
    \/ FairTick

FairSpec ==
    /\ FairInit
    /\ [][FairNext]_vars
    /\ \A o \in 0 .. (NumOutputs - 1) : WF_calls(Called(o))
    /\ WF_wall_clock(FairTick)

\* ------------------------------------------------------------------------
\* Instances with thread modifiers.
\* ------------------------------------------------------------------------
\* A thread that switches directly to one that blocked in a system call.
SwitchToBlockedTraces ==
    <<<<INSTR, INSTR, SYSCALL, DIRECT_SWITCH(TidOf(1)), INSTR>>,
      <<INSTR, TS(1), SYSCALL, MAYBE_BLOCKING, TS(3), INSTR, INSTR>>>>

\* The readers of traces, those of the inputs in DOMAIN bindings bound to
\* the outputs given there.
BoundReaders(traces, bindings) ==
    Fn0([i \in 1 .. Len(traces) |->
            [Reader(traces[i]) EXCEPT
                !.binding = IF (i - 1) \in DOMAIN bindings
                            THEN bindings[i - 1] ELSE {}]])

\* Input 1 may run on output 1 only.
BoundScenarios ==
    {[opt |-> [DefaultOptions EXCEPT !.output_count = 2],
      rds |-> BoundReaders(traces, (1 :> {1}))]
        : traces \in {SwitchToBlockedTraces, BlockingTraces, QuantumTraces}}

\* A thread of a trace in the legacy format, without timestamps around its
\* system calls, that makes a maybe-blocking system call.
LegacyTraces == <<<<INSTR, SYSCALL, MAYBE_BLOCKING, INSTR, INSTR>>, <<INSTR, INSTR>>>>

\* Legacy traces; the threshold for a switch on a blocking system call is
\* above the maximum blocked time.
LegacyScenarios ==
    {[opt |-> [DefaultOptions EXCEPT !.blocking_switch_threshold = 3],
      rds |-> Fn0([i \in 1 .. Len(LegacyTraces) |->
                      [Reader(LegacyTraces[i]) EXCEPT !.frequent_timestamps = FALSE]])]}

VariantScenarios == BoundScenarios \cup LegacyScenarios

VariantInit == \E sc \in VariantScenarios : InitWith(sc)

VariantNext ==
    \/ \E o \in Outputs : NextRecord(o)
    \/ Tick

VariantSpec == VariantInit /\ [][VariantNext]_vars

\* ------------------------------------------------------------------------
\* Outputs that are deactivated and reactivated.
\* ------------------------------------------------------------------------
\* The number of calls made besides next_record() in one run.
MaxCalls == 2

\* The call made besides next_record() that hist.api tells of.
NoteCall(h, op, output, status, record) ==
    [h EXCEPT !.api = [op |-> op, output |-> output, status |-> status, n |-> @.n + 1,
                       fresh |-> TRUE, record |-> record]]

ActiveScenarios ==
    Scenario(DefaultOptions, QuantumTraces, {2})
    \cup Scenario([DefaultOptions EXCEPT !.mapping = "MAP_TO_CONSISTENT_OUTPUT"],
                  QuantumTraces, {2})

ActiveInit == \E sc \in ActiveScenarios : InitWith(sc)

\* A thread of the simulator calls set_active() on output o.
SetActive(o, active) ==
    /\ hist.api.n < MaxCalls
    /\ \/ active
       \/ outputs_[o].cur_input # INVALID_INPUT_ORDINAL
       \/ ~outputs_[o].active
       \/ options_.mapping # "MAP_TO_ANY_OUTPUT"
    /\ Let(set_output_active(State, o, active), LAMBDA r :
          /\ Becomes(r.s)
          /\ hist' = NoteCall(r.s.hist,
                              IF active THEN "activate" ELSE "deactivate", o, r.status,
                              InvalidRecord))
    /\ UNCHANGED <<readers, wall_clock, calls>>

ActiveNext ==
    \/ \E o \in Outputs : NextRecord(o)
    \/ Tick
    \/ \E o \in Outputs : \E active \in BOOLEAN : SetActive(o, active)

ActiveSpec == ActiveInit /\ [][ActiveNext]_vars

\* ------------------------------------------------------------------------
\* Records that are unread, and speculation.
\* ------------------------------------------------------------------------
\* A thread whose first instruction comes after two header markers, which
\* init() reads ahead and queues, beside a compute-only thread.
HeaderTraces == <<<<MARKER, MARKER, INSTR, INSTR>>, <<INSTR, INSTR>>>>

StreamScenarios ==
    Scenario(DefaultOptions, HeaderTraces, {1})
    \cup Scenario([DefaultOptions EXCEPT !.mapping = "MAP_TO_CONSISTENT_OUTPUT"],
                  QuantumTraces, {1})
    \cup Scenario([DefaultOptions EXCEPT !.record_reader = TRUE], QuantumTraces, {1})
    \cup Scenario(DefaultOptions, LoneBlockingTraces, {1})

StreamInit == \E sc \in StreamScenarios : InitWith(sc)

\* Whether the output has an input for the record that a call would queue.
HasInputFor(o, queues) ==
    queues /\ outputs_[o].last_record # InvalidRecord
        => outputs_[o].cur_input # INVALID_INPUT_ORDINAL

\* A thread of the simulator calls unread_last_record() on output o.
Unread(o) ==
    /\ hist.api.n < MaxCalls
    /\ \A p \in Outputs : hist.status[p] # "ABORTED"
    /\ HasInputFor(o, outputs_[o].speculation_stack = <<>>)
    /\ Let(unread_last_record(State, o), LAMBDA r :
          /\ Becomes(r.s)
          /\ hist' = NoteCall(r.s.hist, "unread", o, r.status, outputs_[o].last_record))
    /\ UNCHANGED <<readers, wall_clock, calls>>

\* A thread of the simulator calls start_speculation() on output o.
StartSpeculation(o, start_address, queue_current_record) ==
    /\ hist.api.n < MaxCalls
    /\ HasInputFor(o, queue_current_record /\ outputs_[o].speculation_stack = <<>>)
    /\ Let(start_speculation(State, o, start_address, queue_current_record), LAMBDA r :
          /\ Becomes(r.s)
          /\ hist' = NoteCall(r.s.hist, "start_speculation", o, r.status, InvalidRecord))
    /\ UNCHANGED <<readers, wall_clock, calls>>

\* A thread of the simulator calls stop_speculation() on output o.
StopSpeculation(o) ==
    /\ hist.api.n < MaxCalls
    /\ Let(stop_speculation(State, o), LAMBDA r :
          /\ Becomes(r.s)
          /\ hist' = NoteCall(r.s.hist, "stop_speculation", o, r.status, InvalidRecord))
    /\ UNCHANGED <<readers, wall_clock, calls>>

StreamNext ==
    \/ \E o \in Outputs : NextRecord(o)
    \/ Tick
    \/ \E o \in Outputs : Unread(o)
    \/ \E o \in Outputs : \E q \in BOOLEAN : StartSpeculation(o, 1, q)
    \/ \E o \in Outputs : StopSpeculation(o)

StreamSpec == StreamInit /\ [][StreamNext]_vars

\* ------------------------------------------------------------------------
\* Properties.
\* ------------------------------------------------------------------------
IsPrefix(a, b) == Len(a) <= Len(b) /\ SubSeq(b, 1, Len(a)) = a

\* The positions 1 .. n in order.
Ordinals(n) == [k \in 1 .. n |-> k]

\* C1: the records delivered from an input, in delivery order, are the
\* records of its reader in reader order, also when a candidate record was
\* pushed behind other buffered records of the input's queue on a switch.
DeliveredInReaderOrder ==
    \A i \in Inputs : hist.got[i] = Ordinals(Len(hist.got[i]))

\* A candidate was pushed behind other buffered records of its input and
\* records read after it have been delivered.
PushedBehindAndDelivered ==
    \E i \in Inputs :
        /\ hist.pushed_behind[i]
        /\ inputs_[i].at_eof
        /\ Len(hist.got[i]) = Len(readers[i].recs)

\* C2: when every output has returned EOF, every record of every reader
\* has been delivered exactly once.
AllDeliveredOnceAtEOF ==
    AllEOF => \A i \in Inputs : hist.got[i] = Ordinals(Len(readers[i].recs))

\* Every output returned EOF after switches of every kind had happened.
AllEOFAfterSwitches ==
    /\ AllEOF
    /\ hist.phase = "run"
    /\ \E o \in Outputs :
          /\ outputs_[o].stats["SWITCH_INPUT_TO_INPUT"] > 0
          /\ outputs_[o].stats["SWITCH_INPUT_TO_IDLE"] > 0

\* The places of input i: the outputs it is the cur_input of, and the queues.
OutputsRunning(i) == {o \in Outputs : outputs_[o].cur_input = i}

PlaceCount(i) ==
    Cardinality(OutputsRunning(i))
    + (IF i \in ready_priority_ THEN 1 ELSE 0)
    + (IF i \in unscheduled_priority_ THEN 1 ELSE 0)

ToAny == options_.mapping = "MAP_TO_ANY_OUTPUT"

EOFOnlyWhenAllInputsDone ==
    ToAny => \A o \in Outputs :
        /\ hist.status[o] = "EOF" =>
              live_input_count_ = 0 /\ \A i \in Inputs : inputs_[i].at_eof
        /\ (outputs_[o].cur_input = INVALID_INPUT_ORDINAL /\ live_input_count_ > 0
               /\ hist.status[o] # "NONE")
              => hist.status[o] = "IDLE"

\* An output that never ran an input idled while the only input was live
\* on the other output, and returned EOF once it had finished.
IdleOutputThenEOF ==
    /\ ToAny
    /\ \E o \in Outputs :
          /\ hist.status[o] = "EOF"
          /\ hist.log[o] = <<>>
          /\ outputs_[o].stats["SWITCH_IDLE_TO_INPUT"] = 0
          /\ wall_clock > 1

EventuallyAllEOF == <>AllEOF

\* Every output returned EOF after an unscheduled input that nothing resumed
\* had been released.
AllEOFAfterFlush == AllEOF /\ hist.flushes # <<>>

\* C8: the hang-avoidance flush of the unscheduled queue happens once the
\* time elapsed on the output since its wait timer started, in microseconds
\* (output time units divided by time_units_per_us), exceeds
\* block_time_max_us, and not before.
FlushNotBeforeMaximum ==
    \A k \in 1 .. Len(hist.flushes) :
        USub(hist.flushes[k].now, hist.flushes[k].start)
            > options_.block_time_max_us * options_.time_units_per_us

\* C9: under MAP_TO_ANY_OUTPUT with an instruction quantum q, an output that
\* preempts its input for another input waiting in the ready queue has
\* delivered exactly q instructions of it in that turn; the preempting
\* instruction is not delivered before the switch and is the next record of
\* the input to be delivered; the preemption leaves the input's counter at
\* zero and is counted in the output's quantum-preempt statistic.
QuantumDeliversExactly ==
    (ToAny /\ options_.quantum_unit = "QUANTUM_INSTRUCTIONS") =>
        /\ (hist.last_preempt.valid /\ ~hist.last_preempt.nop)
              => hist.last_preempt.n = options_.quantum_duration_instrs
        /\ \A i \in Inputs :
              hist.pending[i] # 0 =>
                  /\ Len(hist.got[i]) = hist.pending[i] - 1
                  /\ OutputsRunning(i) = {} => inputs_[i].instrs_in_quantum = 0
        /\ \A o \in Outputs :
              outputs_[o].stats["QUANTUM_PREEMPTS"] = hist.npreempt[o]

\* The position of the first instruction after position n of input i, or one
\* past the end.
RECURSIVE NextInstr(_, _)
NextInstr(i, n) ==
    IF n >= Len(readers[i].recs) THEN Len(readers[i].recs) + 1
    ELSE IF readers[i].recs[n + 1].k = "instr" THEN n + 1
    ELSE NextInstr(i, n + 1)

\* C10: under MAP_TO_ANY_OUTPUT with direct switches honored, once an input
\* has processed an unschedule marker with no timeout, no record of it from
\* the next instruction on is delivered until it is resumed or flushed, which
\* is when its unscheduled flag is cleared; also when the ready queue was
\* empty as it gave up its output.
UnscheduledInputStaysOff ==
    (ToAny /\ options_.honor_direct_switches) =>
        \A i \in Inputs :
            (inputs_[i].unscheduled /\ hist.unsched_at[i] # 0)
                => Len(hist.got[i]) < NextInstr(i, hist.unsched_at[i])

\* C4: a replay of a recorded schedule delivers on every output the records
\* the recording run delivered there, in the same order, whatever the
\* interleaving of the replaying outputs.
ReplayReproduces ==
    hist.phase = "replay" =>
        \A o \in Outputs :
            /\ IsPrefix(hist.log[o], hist.first_log[o])
            /\ hist.status[o] = "EOF" => hist.log[o] = hist.first_log[o]

\* C11: under MAP_TO_ANY_OUTPUT an input with a non-empty binding is the
\* current input only of an output of its binding, however it was installed
\* (initial assignment, pop from the ready queue, direct switch, return to
\* the previous input).
BoundInputOnBoundOutput ==
    ToAny =>
        \A o \in Outputs :
            LET i == outputs_[o].cur_input
            IN (i # INVALID_INPUT_ORDINAL /\ inputs_[i].binding # {})
                   => o \in inputs_[i].binding

\* C12: every input's blocked_time is at most block_time_max_us *
\* time_units_per_us, whether it comes from a system call latency, from a
\* maybe-blocking system call of a legacy trace or from a timeout argument.
BlockedTimeBounded ==
    \A i \in Inputs :
        inputs_[i].blocked_time
            <= options_.block_time_max_us * options_.time_units_per_us

\* C19: while a schedule is recorded, no output's list of recorded segments
\* holds two adjacent idle segments: a request to record an idle segment when
\* the last segment is an idle one appends nothing.
NoAdjacentIdleSegments ==
    Recording(State) =>
        \A o \in Outputs :
            \A k \in 1 .. (Len(outputs_[o].record) - 1) :
                ~(outputs_[o].record[k].type = "IDLE" /\ outputs_[o].record[k + 1].type = "IDLE")

\* A recording output whose open segment is an idle one recorded at an earlier
\* time than its latest next_record() call, which returned IDLE again.
IdleRecordedTwice ==
    /\ Recording(State)
    /\ \E o \in Outputs :
           /\ hist.status[o] = "IDLE"
           /\ outputs_[o].waiting
           /\ LastOf(outputs_[o].record).type = "IDLE"
           /\ LastOf(outputs_[o].record).timestamp < outputs_[o].cur_time

\* A step that is a call besides next_record(), and one that is a
\* next_record() call on output o.
CallStep(ops) == hist'.api.n # hist.api.n /\ hist'.api.op \in ops
NextRecordStep(o) == calls'[o] # calls[o]

\* The scheduler state but the history.
SchedulerState ==
    <<options_, inputs_, outputs_, ready_priority_, unscheduled_priority_,
      ready_counter_, unscheduled_counter_, num_blocked_, live_input_count_,
      live_replay_output_count_>>

\* C20 as stated: set_active() returns INVALID and changes nothing unless the mapping is
\* MAP_TO_ANY_OUTPUT; under MAP_TO_ANY_OUTPUT the input of an output that is
\* deactivated is in the ready or the unscheduled queue after the call, every
\* next_record() on a deactivated output returns IDLE, and an output that is
\* reactivated has no input and waits, so that its next next_record() asks
\* the dispatcher for an input.
SetActiveProtocol ==
    [][/\ CallStep({"activate", "deactivate"}) =>
            LET o == hist'.api.output
                i == outputs_[o].cur_input
            IN /\ ~ToAny => (hist'.api.status = "INVALID" /\ UNCHANGED SchedulerState)
               /\ (ToAny /\ hist'.api.op = "deactivate" /\ outputs_[o].active
                        /\ i # INVALID_INPUT_ORDINAL)
                     => /\ hist'.api.status = "OK"
                        /\ ~outputs_'[o].active
                        /\ outputs_'[o].cur_input = INVALID_INPUT_ORDINAL
                        /\ i \in ready_priority_' \cup unscheduled_priority_'
               /\ (ToAny /\ hist'.api.op = "activate" /\ ~outputs_[o].active)
                     => /\ hist'.api.status = "OK"
                        /\ outputs_'[o].active
                        /\ outputs_'[o].waiting
                        /\ outputs_'[o].cur_input = INVALID_INPUT_ORDINAL
       /\ \A o \in Outputs :
              (NextRecordStep(o) /\ ~outputs_[o].active)
                  => /\ hist'.status[o] = "IDLE"
                     /\ ~outputs_'[o].active
                     /\ outputs_'[o].cur_input = INVALID_INPUT_ORDINAL]_vars

\* C20, amended: set_active() returns INVALID and changes nothing unless the
\* mapping is MAP_TO_ANY_OUTPUT; under MAP_TO_ANY_OUTPUT the input of an output
\* that is deactivated is, unless it is at EOF, in the ready or the
\* unscheduled queue after the call, every
\* next_record() on a deactivated output returns IDLE, and an output that is
\* reactivated has no input and waits, so that its next next_record() asks
\* the dispatcher for an input.
SetActiveProtocolLive ==
    [][/\ CallStep({"activate", "deactivate"}) =>
            LET o == hist'.api.output
                i == outputs_[o].cur_input
            IN /\ ~ToAny => (hist'.api.status = "INVALID" /\ UNCHANGED SchedulerState)
               /\ (ToAny /\ hist'.api.op = "deactivate" /\ outputs_[o].active
                        /\ i # INVALID_INPUT_ORDINAL /\ ~inputs_[i].at_eof)
                     => /\ hist'.api.status = "OK"
                        /\ ~outputs_'[o].active
                        /\ outputs_'[o].cur_input = INVALID_INPUT_ORDINAL
                        /\ i \in ready_priority_' \cup unscheduled_priority_'
               /\ (ToAny /\ hist'.api.op = "activate" /\ ~outputs_[o].active)
                     => /\ hist'.api.status = "OK"
                        /\ outputs_'[o].active
                        /\ outputs_'[o].waiting
                        /\ outputs_'[o].cur_input = INVALID_INPUT_ORDINAL
       /\ \A o \in Outputs :
              (NextRecordStep(o) /\ ~outputs_[o].active)
                  => /\ hist'.status[o] = "IDLE"
                     /\ ~outputs_'[o].active
                     /\ outputs_'[o].cur_input = INVALID_INPUT_ORDINAL]_vars

\* An output was deactivated, was reactivated and then got a record of the
\* input the dispatcher gave it.
ReactivatedOutputRuns ==
    \E o \in Outputs :
        /\ ToAny
        /\ hist.api.op = "activate" /\ hist.api.output = o /\ hist.api.n = 2
        /\ hist.api.status = "OK"
        /\ hist.status[o] = "OK"
        /\ outputs_[o].active /\ ~outputs_[o].waiting
        /\ outputs_[o].prev_input # INVALID_INPUT_ORDINAL
        /\ outputs_[o].cur_input # INVALID_INPUT_ORDINAL
        /\ outputs_[o].stats["SWITCH_IDLE_TO_INPUT"] > 0

\* An unread_last_record() call on output o has returned OK and no
\* next_record() call was made on o since.
UnreadPending(o) ==
    /\ hist.api.op = "unread" /\ hist.api.status = "OK"
    /\ hist.api.output = o /\ hist.api.fresh

\* C15: when next_record() returned a record r on an output and
\* unread_last_record() then returns OK, the input's count of instructions in
\* its quantum is what it was before r was delivered, and the next next_record()
\* on the output returns r again, from the same input, whatever the input's
\* queue held at the time of the unread.
UnreadRoundTrip ==
    [][/\ (CallStep({"unread"}) /\ hist'.api.status = "OK") =>
            LET o == hist'.api.output
            IN inputs_'[outputs_[o].cur_input].instrs_in_quantum = hist.instrs_before[o]
       /\ \A o \in Outputs :
              (NextRecordStep(o) /\ UnreadPending(o))
                  => /\ hist'.status[o] = "OK"
                     /\ outputs_'[o].last_record = hist.api.record]_vars

\* C16: unread_last_record() returns INVALID and changes nothing of the
\* scheduler state when no record was delivered on the output yet, when the
\* last delivered record was already unread (the call follows an unread that
\* returned OK), or when the output's speculation stack is not empty; for
\* trace_entry_t records it returns NOT_IMPLEMENTED.
UnreadRefused ==
    [][CallStep({"unread"}) =>
          LET o == hist'.api.output
          IN /\ options_.record_reader
                   => (hist'.api.status = "NOT_IMPLEMENTED" /\ UNCHANGED SchedulerState)
             /\ (/\ ~options_.record_reader
                 /\ \/ hist.log[o] = <<>>
                    \/ UnreadPending(o)
                    \/ outputs_[o].speculation_stack # <<>>)
                   => (hist'.api.status = "INVALID" /\ UNCHANGED SchedulerState)]_vars

\* The second of two unread_last_record() calls in a row was refused.
UnreadTwiceRefused ==
    /\ hist.api.op = "unread" /\ hist.api.n = 2
    /\ hist.api.status = "INVALID"
    /\ hist.log[hist.api.output] # <<>>
    /\ hist.api.record = InvalidRecord
    /\ outputs_[hist.api.output].speculation_stack = <<>>
    /\ inputs_[outputs_[hist.api.output].cur_input].queue # <<>>

\* The fields of an input that C17 says speculation leaves alone.
InputFrame(inp) ==
    <<inp.queue, inp.pos, inp.needs_advance, inp.at_eof,
      inp.instrs_in_quantum, inp.time_spent_in_quantum, inp.prev_time_in_quantum,
      inp.processing_syscall, inp.processing_maybe_blocking_syscall,
      inp.pre_syscall_timestamp, inp.syscall_timeout_arg>>

\* C17: while the speculation stack of an output is not empty, next_record()
\* on it returns the speculator's record at speculate_pc and leaves the
\* output's cur_input, that input's queue, reader position, quantum state and
\* system call state, and the ready and unscheduled queues as they were.
SpeculationLeavesInputAlone ==
    [][\A o \in Outputs :
          (NextRecordStep(o) /\ outputs_[o].speculation_stack # <<>>)
              => /\ hist'.status[o] = "OK"
                 /\ hist'.returned[o] =
                        speculator_next_record(outputs_[o].speculate_pc).record
                 /\ outputs_'[o].cur_input = outputs_[o].cur_input
                 /\ \A i \in Inputs : InputFrame(inputs_'[i]) = InputFrame(inputs_[i])
                 /\ ready_priority_' = ready_priority_
                 /\ unscheduled_priority_' = unscheduled_priority_]_vars

\* ------------------------------------------------------------------------
\* Regions of interest.
\* ------------------------------------------------------------------------
RegionsOf(i) == readers[i].regions_of_interest

\* The instruction ordinal of the record at position pos of input i.
InstrOrdinalAt(i, pos) == CountInstrs(readers[i].recs, pos)

\* Instruction ordinal n lies in region r of input i (counted from 1 here):
\* both ends belong to the region, and a stop of 0 is the end of the trace.
InRegion(i, r, n) ==
    /\ RegionsOf(i)[r].start <= n
    /\ RegionsOf(i)[r].stop = 0 \/ n <= RegionsOf(i)[r].stop

\* The instructions delivered from input i are inside its regions, and once
\* the input is finished they are all of them, in order.
RegionsOnly(i) ==
    LET d == SelectSeq(hist.delivered[i], LAMBDA r : r.k = "instr")
        inside == {pos \in 1 .. Len(readers[i].recs) :
                     /\ readers[i].recs[pos].k = "instr"
                     /\ \E r \in 1 .. Len(RegionsOf(i)) :
                           InRegion(i, r, InstrOrdinalAt(i, pos))}
    IN
    /\ \A j \in 1 .. Len(d) : d[j].ord \in inside
    /\ \A j \in 1 .. (Len(d) - 1) : d[j].ord < d[j + 1].ord
    /\ (inputs_[i].at_eof /\ inputs_[i].queue = <<>>) => Len(d) = Cardinality(inside)

\* A region separator with the region's number comes right before the first
\* instruction delivered from each region but the first, and nowhere else.
SeparatorsPlaced(i) ==
    LET d == hist.delivered[i]
        FirstOf(j, r) ==
            /\ d[j].k = "instr"
            /\ InRegion(i, r, InstrOrdinalAt(i, d[j].ord))
            /\ \A h \in 1 .. (j - 1) :
                  d[h].k = "instr" => ~InRegion(i, r, InstrOrdinalAt(i, d[h].ord))
    IN
    /\ \A j \in 1 .. Len(d) : \A r \in 2 .. Len(RegionsOf(i)) :
          FirstOf(j, r) => j > 1 /\ d[j - 1].k = "window_id" /\ d[j - 1].v = r - 1
    /\ \A j \in 1 .. Len(d) :
          d[j].k = "window_id"
              => /\ d[j].v >= 1
                 /\ j < Len(d) => FirstOf(j + 1, d[j].v + 1)

\* Every skip asks the reader for the start of the region less the reader's
\* instruction ordinal less one.
SkipAmounts(i) ==
    \A k \in 1 .. Len(hist.skips[i]) :
        LET skip == hist.skips[i][k] IN
        skip.amount = RegionsOf(i)[skip.region + 1].start - skip.from - 1

\* The thread of one hundred instructions with the regions 10 to 20 and 30
\* to 40, once finished: count instructions were delivered, the separator of
\* region 1 came before instruction 30, and the reader was asked to skip 8
\* and 8 instructions.
LongTraceDelivers(i, count) ==
    (/\ Len(readers[i].recs) = 100
     /\ inputs_[i].at_eof /\ inputs_[i].queue = <<>>)
        => /\ Len(SelectSeq(hist.delivered[i], LAMBDA r : r.k = "instr")) = count
           /\ \E j \in 1 .. (Len(hist.delivered[i]) - 1) :
                 /\ hist.delivered[i][j].k = "window_id"
                 /\ hist.delivered[i][j].v = 1
                 /\ hist.delivered[i][j + 1].ord = 30
           /\ [k \in 1 .. Len(hist.skips[i]) |-> hist.skips[i][k].amount] = <<8, 8>>

RegionInputs == {i \in Inputs : RegionsOf(i) # <<>>}

LiveInputCountExact ==
    /\ live_input_count_ = Cardinality({i \in Inputs : ~inputs_[i].at_eof})
    /\ live_input_count_ >= 0

\* In replay an input was ended by a SYNTHETIC_END segment and its thread
\* exit was delivered, while the other input is still live.
ReplayedSyntheticEnd ==
    /\ hist.phase = "replay"
    /\ \E o \in Outputs : \E i \in Inputs :
          /\ outputs_[o].record_index >= 0
          /\ outputs_[o].record[outputs_[o].record_index + 1].type = "SYNTHETIC_END"
          /\ outputs_[o].record[outputs_[o].record_index + 1].input = i
          /\ inputs_[i].at_eof
          /\ ~ReaderAtEnd(readers[i], inputs_[i].pos)
          /\ outputs_[o].last_record = create_thread_exit(i)
    /\ live_input_count_ = 1

\* ------------------------------------------------------------------------
\* The order of the locks.
\* ------------------------------------------------------------------------
\* A thread with a header and one region of one instruction beside a thread
\* that is still live when the region ends.
ShortRegionTraces == <<<<MARKER, INSTR, INSTR, INSTR>>, <<INSTR, INSTR, INSTR>>>>

\* The instances: the thread whose region ends early, in builds with and
\* without assertions and with two contents of the memory past its regions;
\* and a thread that resumes another with a _SYSCALL_SCHEDULE marker.
LockScenarios ==
    {[opt |-> [DefaultOptions EXCEPT !.assertions = asserts],
      rds |-> [WithRegions(Fn0(<<Reader(ShortRegionTraces[1]),
                                 Reader(ShortRegionTraces[2])>>),
                           0, <<Range(1, 1)>>)
                  EXCEPT ![0].past_the_end = beyond]]
        : asserts \in BOOLEAN, beyond \in {Range(1, 1), Range(UINT64_MAX, 0)}}
    \cup Scenario(DefaultOptions, ScheduleTraces, {1})

LockInit == \E sc \in LockScenarios : InitWith(sc)

LockNext ==
    \/ \E o \in Outputs : NextRecord(o)
    \/ Tick
    \/ \E o \in Outputs : Unread(o)

LockSpec == LockInit /\ [][LockNext]_vars

TimestampValues == 1 .. 2

\* A thread of two timestamped chunks, and one of a single chunk.
SerialTraceSet ==
    {<<TS(a), INSTR, TS(b), INSTR>> : a \in TimestampValues, b \in TimestampValues}
    \cup {<<MARKER, TS(a), INSTR>> : a \in TimestampValues}

SerialScenarios ==
    {[opt |-> [DefaultOptions EXCEPT !.mapping = "MAP_TO_RECORDED_OUTPUT",
                                     !.deps = "DEPENDENCY_TIMESTAMPS"],
      rds |-> [i \in 0 .. (NumInputs - 1) |-> Reader(traces[i])]]
        : traces \in [0 .. (NumInputs - 1) -> SerialTraceSet]}

SerialInit == \E sc \in SerialScenarios : InitWith(sc)

SerialNext ==
    \/ \E o \in Outputs : NextRecord(o)
    \/ Tick

SerialSpec == SerialInit /\ [][SerialNext]_vars

\* The timestamp markers among the records of a sequence of <<input,
\* position>> pairs, as <<input, value>> pairs.
TimestampsOf(log) ==
    Let(SelectSeq(log, LAMBDA e : e[2] > 0 /\ readers[e[1]].recs[e[2]].k = "timestamp"),
        LAMBDA sel :
       [n \in 1 .. Len(sel) |-> <<sel[n][1], readers[sel[n][1]].recs[sel[n][2]].v>>])

\* The timestamps of a trace, in trace order.
OwnTimestamps(recs) ==
    Let(SelectSeq(recs, LAMBDA r : r.k = "timestamp"), LAMBDA sel :
       [n \in 1 .. Len(sel) |-> sel[n].v])

NonDecreasing(seq) == \A n \in 1 .. (Len(seq) - 1) : seq[n] <= seq[n + 1]

\* The timestamp marker that the output delivered last, if its last record
\* is one.
LastIsTimestamp(o) ==
    /\ hist.log[o] # <<>>
    /\ LastOf(hist.log[o])[2] > 0
    /\ readers[LastOf(hist.log[o])[1]].recs[LastOf(hist.log[o])[2]].k = "timestamp"

\* C21: in serial mode a timestamp marker is delivered from the input that
\* has the smallest next_timestamp among the inputs not at their end, the
\* lowest-numbered one on a tie; so when the timestamps of every input are
\* non-decreasing, the timestamp markers come out in non-decreasing order.
SerialTimestampOrder ==
    /\ LastIsTimestamp(0) =>
           LET i == LastOf(hist.log[0])[1]
           IN  \A j \in Inputs \ {i} :
                  \/ inputs_[j].at_eof
                  \/ inputs_[j].next_timestamp > inputs_[i].next_timestamp
                  \/ /\ inputs_[j].next_timestamp = inputs_[i].next_timestamp
                     /\ j > i
    /\ (\A i \in Inputs : NonDecreasing(OwnTimestamps(readers[i].recs)))
           => NonDecreasing([n \in 1 .. Len(TimestampsOf(hist.log[0])) |->
                                TimestampsOf(hist.log[0])[n][2]])

\* Two threads whose timestamps interleave and tie have both been delivered
\* to their ends.
SerialInterleaved ==
    /\ hist.status[0] = "EOF"
    /\ \A i \in Inputs : NonDecreasing(OwnTimestamps(readers[i].recs))
    /\ \E m, n \in 1 .. Len(TimestampsOf(hist.log[0])) :
           /\ m + 1 < n
           /\ TimestampsOf(hist.log[0])[m][1] = TimestampsOf(hist.log[0])[n][1]
           /\ TimestampsOf(hist.log[0])[m + 1][1] # TimestampsOf(hist.log[0])[m][1]
           /\ TimestampsOf(hist.log[0])[m + 1][2] = TimestampsOf(hist.log[0])[n][2]

\* ------------------------------------------------------------------------
\* The ready queue under priorities, bindings and blocked inputs.
\* ------------------------------------------------------------------------
\* A thread that blocks in a system call, a thread bound to output 1, and
\* two compute-only threads, the last of a priority that is tried at 0 and
\* at 1.
QueueTraces ==
    <<<<INSTR, TS(1), SYSCALL, MAYBE_BLOCKING, TS(3), INSTR>>,
      <<INSTR, INSTR>>,
      <<INSTR, INSTR, INSTR>>,
      <<INSTR, INSTR, INSTR>>>>

\* Two threads that unschedule themselves twice and then compute.
UnscheduleTwiceTraces ==
    <<<<INSTR, SYSCALL, UNSCHEDULE, INSTR, SYSCALL, UNSCHEDULE, INSTR, INSTR, INSTR>>,
      <<INSTR, SYSCALL, UNSCHEDULE, INSTR, SYSCALL, UNSCHEDULE, INSTR, INSTR, INSTR>>>>

\* Four threads that start unscheduled beside a compute-only thread; nothing
\* schedules them, and the scheduler moves them to the ready queue once the
\* output has idled for the maximum blocked time.
StartUnscheduledTraces ==
    <<<<UNSCHEDULE, INSTR, INSTR, INSTR, INSTR, INSTR, INSTR, INSTR>>,
      <<UNSCHEDULE, INSTR, INSTR, INSTR, INSTR>>,
      <<UNSCHEDULE, INSTR>>,
      <<UNSCHEDULE, INSTR>>,
      <<INSTR, INSTR>>>>

QueueScenarios ==
    {[opt |-> [DefaultOptions EXCEPT !.output_count = 2],
      rds |-> [BoundReaders(QueueTraces, (1 :> {1})) EXCEPT ![3].priority = pri]]
        : pri \in {0, 1}}
    \cup {[opt |-> [DefaultOptions EXCEPT !.output_count = 2],
           rds |-> BoundReaders(UnscheduleTwiceTraces, <<>>)]}
    \cup {[opt |-> [DefaultOptions EXCEPT !.time_units_per_us = 2],
           rds |-> BoundReaders(StartUnscheduledTraces, <<>>)]}

QueueInit == \E sc \in QueueScenarios : InitWith(sc)

QueueNext ==
    \/ \E o \in Outputs : NextRecord(o)
    \/ Tick

QueueSpec == QueueInit /\ [][QueueNext]_vars

\* The binding of input i allows output o.
Allowed(i, o) == inputs_[i].binding = {} \/ o \in inputs_[i].binding

\* The state in which output o, called at the present time, looks into the
\* ready queue.
AtCall(o) == [State EXCEPT !.outputs_[o].cur_time = wall_clock]

\* Input i is blocked and its blocked time has not passed at the present
\* time.
StillBlocked(i, o) ==
    /\ inputs_[i].blocked_time > 0
    /\ wall_clock - inputs_[i].blocked_start_time < inputs_[i].blocked_time

\* The inputs of the ready queue that output o may take now.
Eligible(o) == {i \in ready_priority_ : Allowed(i, o) /\ ~StillBlocked(i, o)}

\* Input a has a higher priority than b, or the same priority and entered
\* the ready queue before b.
Earlier(a, b) ==
    \/ inputs_[a].priority > inputs_[b].priority
    \/ /\ inputs_[a].priority = inputs_[b].priority
       /\ hist.inserted[a] < hist.inserted[b]

\* The largest queue_counter of the ready queue.
BackOfQueue(q) ==
    IF q = {} THEN 0
    ELSE inputs_[CHOOSE a \in q : \A b \in q :
                    inputs_[a].queue_counter >= inputs_[b].queue_counter].queue_counter

\* C22: pop_from_ready_queue() for output o returns, of the inputs of the
\* ready queue that o may take and that are not still blocked, the one of the
\* highest priority and, of these, the one that entered the queue first; an
\* input passed over for its binding keeps its queue_counter, and an input
\* passed over as still blocked goes to the back with a new counter.
PopFromReadyQueueOrder ==
    \A o \in Outputs :
        LET p == pop_from_ready_queue(AtCall(o), o)
            res == p.new_input
        IN  /\ Eligible(o) = {} => res = INVALID_INPUT_ORDINAL
            /\ Eligible(o) # {} =>
                   /\ res \in Eligible(o)
                   /\ \A b \in Eligible(o) \ {res} : Earlier(res, b)
            /\ p.s.ready_priority_ = ready_priority_ \ {res}
            /\ \A i \in ready_priority_ \ {res} :
                   IF /\ Allowed(i, o)
                      /\ StillBlocked(i, o)
                      /\ res \in Inputs => Earlier(i, res)
                   THEN /\ p.s.inputs_[i].queue_counter > BackOfQueue(ready_priority_)
                        /\ p.s.hist.inserted[i] > Len(hist.insertions)
                   ELSE /\ p.s.inputs_[i].queue_counter = inputs_[i].queue_counter
                        /\ p.s.hist.inserted[i] = hist.inserted[i]

\* ------------------------------------------------------------------------
\* Outputs with clocks of their own.  next_record() takes the time from its
\* caller and does not require the times of different outputs to agree: a
\* simulator passes the clock of the core it simulates.
\* ------------------------------------------------------------------------
ClockScenarios ==
    Scenario(DefaultOptions, BlockingTraces, {2})
    \cup Scenario(DefaultOptions, TimeoutTraces, {2})

ClockInit == \E sc \in ClockScenarios : InitWith(sc)

\* The clock of an output does not go back; a caller that was told to wait
\* or idle calls again once its clock has moved.
MayCallAt(o, cur_time) ==
    /\ cur_time >= outputs_[o].cur_time
    /\ \/ hist.status[o] \in {"NONE", "OK"}
       \/ outputs_[o].cur_time < cur_time

\* The simulator thread of output o calls next_record() at the time
\* cur_time of its core.
NextRecordAt(o, cur_time) ==
    /\ MayCallAt(o, cur_time)
    /\ Let(next_record(State, o, cur_time), LAMBDA r :
          /\ Becomes(r.s)
          /\ hist' = [r.s.hist EXCEPT
                         !.held = {},
                         !.status[o] = r.status,
                         !.eof_polls[o] = IF hist.status[o] = "EOF" /\ @ < 2
                                          THEN @ + 1 ELSE @,
                         !.api.fresh = @ /\ hist.api.output # o,
                         !.instrs_before[o] =
                             IF r.status = "OK" /\ r.s.outputs_[o].cur_input >= 0
                             THEN inputs_[r.s.outputs_[o].cur_input].instrs_in_quantum
                             ELSE @])
    /\ calls' = [calls EXCEPT ![o] = 1 - @]
    /\ UNCHANGED <<readers, wall_clock>>

ClockNext == \E o \in Outputs : \E cur_time \in 1 .. MaxTime : NextRecordAt(o, cur_time)

ClockSpec == ClockInit /\ [][ClockNext]_vars

\* The state in which output o, called at time cur_time, looks into the
\* ready queue.
AtTime(o, cur_time) == [State EXCEPT !.outputs_[o].cur_time = cur_time]

\* C23: an input of the ready queue with blocked_time b > 0 that blocked at
\* time s is handed by pop_from_ready_queue() to an output whose time is t
\* only if t - s >= b, also when t is before s; and when t - s >= b the input
\* is not passed over as blocked.
BlockedUntilTimePasses ==
    \A o \in Outputs : \A t \in 1 .. MaxTime :
        t >= outputs_[o].cur_time =>
            LET p == pop_from_ready_queue(AtTime(o, t), o)
                res == p.new_input
            IN  /\ (res \in Inputs /\ inputs_[res].blocked_time > 0)
                       => t - inputs_[res].blocked_start_time >= inputs_[res].blocked_time
                /\ \A i \in ready_priority_ :
                       (/\ Allowed(i, o)
                        /\ inputs_[i].blocked_time > 0
                        /\ t - inputs_[i].blocked_start_time >= inputs_[i].blocked_time)
                           => res \in Inputs

\* ------------------------------------------------------------------------
\* The blocking model of system calls.  A thread makes one system call, with
\* or without the maybe-blocking marker, whose latency is the distance of
\* the timestamps around it, beside a compute-only thread; the instruction
\* after the system call is the second or the third of the thread's quantum.
\* ------------------------------------------------------------------------
SyscallLatencies == 0 .. 3

SyscallTraceSet ==
    {<<INSTR>> \o pre \o <<TS(1)>> \o sys \o <<TS(1 + lat), INSTR, INSTR>> :
        pre \in {<<>>, <<INSTR>>},
        sys \in {<<SYSCALL>>, <<SYSCALL, MAYBE_BLOCKING>>},
        lat \in SyscallLatencies}

SyscallScenarios ==
    UNION {Scenario(DefaultOptions, <<t, <<INSTR, INSTR, INSTR>>>>, {1, 2}) :
              t \in SyscallTraceSet}

SyscallInit == \E sc \in SyscallScenarios : InitWith(sc)

SyscallNext ==
    \/ \E o \in Outputs : NextRecord(o)
    \/ Tick

SyscallSpec == SyscallInit /\ [][SyscallNext]_vars

\* The position in its reader of the record that input i hands out next
\* when its queue is empty.
NextPos(i) ==
    IF inputs_[i].needs_advance /\ ~inputs_[i].at_eof
    THEN inputs_[i].pos + 1 ELSE inputs_[i].pos

\* The next candidate record of input i is an instruction.
NextIsInstr(i) ==
    IF inputs_[i].queue # <<>> THEN record_type_is_instr(Head(inputs_[i].queue))
    ELSE /\ ~ReaderAtEnd(readers[i], NextPos(i))
         /\ record_type_is_instr(readers[i].recs[NextPos(i)])

\* The next next_record() call on output o examines the first instruction of
\* its input after a system call, and the input has no pending direct
\* switch, blocked time or unschedule.
AtSyscallBoundary(o) ==
    LET i == outputs_[o].cur_input IN
    /\ ToAny
    /\ outputs_[o].active /\ ~outputs_[o].waiting
    /\ outputs_[o].speculation_stack = <<>>
    /\ i \in Inputs
    /\ readers[i].frequent_timestamps
    /\ inputs_[i].processing_syscall \/ inputs_[i].processing_maybe_blocking_syscall
    /\ inputs_[i].switch_to_input = INVALID_INPUT_ORDINAL
    /\ inputs_[i].blocked_time = 0
    /\ ~inputs_[i].unscheduled
    /\ NextIsInstr(i)

\* The latency of the system call of input i and the threshold it is held
\* against.
SyscallLatency(i) ==
    LastTimestamp(readers[i].recs,
                  IF inputs_[i].queue # <<>> THEN inputs_[i].pos ELSE NextPos(i))
        - inputs_[i].pre_syscall_timestamp

SyscallThreshold(i) ==
    IF inputs_[i].processing_maybe_blocking_syscall
    THEN options_.blocking_switch_threshold
    ELSE options_.syscall_switch_threshold

\* C24: at the first instruction boundary after a system call (no pending
\* direct switch, blocked time or unschedule) the input is switched out as
\* blocked if and only if the latency of the system call is at least the
\* threshold of its kind, its blocked_time is then the scaled latency, and
\* the system call flags and the timeout argument are cleared either way.
\* An output whose quantum ends at that instruction may switch the input
\* out as well, but not as blocked.
SyscallBlockingModel ==
    [][\A o \in Outputs :
          (NextRecordStep(o) /\ AtSyscallBoundary(o)) =>
              LET i == outputs_[o].cur_input
                  blocks == SyscallLatency(i) >= SyscallThreshold(i)
                  preempted == outputs_'[o].stats["QUANTUM_PREEMPTS"]
                                   # outputs_[o].stats["QUANTUM_PREEMPTS"]
              IN  /\ blocks => outputs_'[o].cur_input # i
                  /\ (~blocks /\ ~preempted) => outputs_'[o].cur_input = i
                  /\ blocks =>
                         inputs_'[i].blocked_time
                             = scale_blocked_time(State, SyscallLatency(i))
                  /\ ~blocks => inputs_'[i].blocked_time = 0
                  /\ ~inputs_'[i].processing_syscall
                  /\ ~inputs_'[i].processing_maybe_blocking_syscall
                  /\ inputs_'[i].syscall_timeout_arg = 0]_vars

\* ------------------------------------------------------------------------
\* Direct switches.  A thread asks for a switch to a thread that blocked in
\* a system call, to one that unscheduled itself, or to one that may be
\* running on another output; a compute-only thread waits in the ready
\* queue ahead of the target.
\* ------------------------------------------------------------------------
SwitchToReadyTraces ==
    <<<<INSTR, TS(1), SYSCALL, MAYBE_BLOCKING, TS(3), INSTR, INSTR>>,
      <<INSTR, SYSCALL, DIRECT_SWITCH(TidOf(0)), INSTR, INSTR>>,
      <<INSTR, INSTR, INSTR>>>>

SwitchToUnscheduledTraces ==
    <<<<INSTR, SYSCALL, UNSCHEDULE, INSTR, INSTR>>,
      <<INSTR, SYSCALL, DIRECT_SWITCH(TidOf(0)), INSTR, INSTR>>,
      <<INSTR, INSTR, INSTR>>>>

SwitchToRunningTraces ==
    <<<<INSTR, SYSCALL, DIRECT_SWITCH(TidOf(1)), INSTR, INSTR>>,
      <<INSTR, INSTR, SYSCALL, UNSCHEDULE, INSTR>>>>

SwitchToRunningBesideTraces ==
    <<<<INSTR, SYSCALL, DIRECT_SWITCH(TidOf(1)), INSTR, INSTR>>,
      <<INSTR, INSTR, SYSCALL, UNSCHEDULE, INSTR>>,
      <<INSTR, INSTR, INSTR>>>>

\* A thread that asks twice for another to be scheduled, and the other
\* unschedules itself twice.
ScheduleTwiceTraces ==
    <<<<INSTR, SYSCALL, SCHEDULE(TidOf(1)), SYSCALL, SCHEDULE(TidOf(1)), INSTR>>,
      <<INSTR, SYSCALL, UNSCHEDULE, INSTR, SYSCALL, UNSCHEDULE, INSTR>>>>

\* A thread that asks for another to be scheduled, and the other unschedules
\* itself with a timeout.
ScheduleTimeoutTraces ==
    <<<<INSTR, INSTR, SYSCALL, SCHEDULE(TidOf(1)), INSTR>>,
      <<INSTR, SYSCALL, ARG_TIMEOUT(2), UNSCHEDULE, INSTR, INSTR>>>>

\* A thread that asks for another to be scheduled, and the other asks for a
\* switch back.
ScheduleThenSwitchTraces ==
    <<<<INSTR, SYSCALL, SCHEDULE(TidOf(1)), INSTR>>,
      <<INSTR, INSTR, SYSCALL, DIRECT_SWITCH(TidOf(0)), INSTR>>>>

SwitchScenarios ==
    {[opt |-> [DefaultOptions EXCEPT !.output_count = n],
      rds |-> BoundReaders(traces, <<>>)]
        : n \in {1, 2},
          traces \in {SwitchToReadyTraces, SwitchToUnscheduledTraces,
                      SwitchToRunningTraces, SwitchToRunningBesideTraces,
                      ScheduleTraces, ScheduleTwiceTraces, ScheduleTimeoutTraces,
                      ScheduleThenSwitchTraces}}

SwitchInit == \E sc \in SwitchScenarios : InitWith(sc)

SwitchNext ==
    \/ \E o \in Outputs : NextRecord(o)
    \/ Tick

SwitchSpec == SwitchInit /\ [][SwitchNext]_vars

\* The next next_record() call on output o runs the dispatcher for an input
\* that has a pending switch_to_input: it examines the first instruction of
\* the input after the system call of the switch request.
AtDirectSwitch(o) ==
    LET p == outputs_[o].cur_input IN
    /\ ToAny
    /\ outputs_[o].active /\ ~outputs_[o].waiting
    /\ outputs_[o].speculation_stack = <<>>
    /\ p \in Inputs
    /\ inputs_[p].processing_syscall \/ inputs_[p].processing_maybe_blocking_syscall
    /\ inputs_[p].switch_to_input # INVALID_INPUT_ORDINAL
    /\ NextIsInstr(p)

\* C25: when the dispatcher runs for an output whose outgoing input has a
\* pending switch_to_input and the target is in the ready queue (blocked or
\* not) or in the unscheduled queue, the target leaves its queue and is the
\* output's cur_input whatever the order of the ready queue, its blocked_time
\* and unscheduled flag are clear, the outgoing input's switch_to_input is
\* clear, and the output counts exactly one more direct-switch success.
DirectSwitchSuccess ==
    [][\A o \in Outputs :
          (/\ NextRecordStep(o)
           /\ AtDirectSwitch(o)
           /\ inputs_[outputs_[o].cur_input].switch_to_input
                  \in ready_priority_ \cup unscheduled_priority_) =>
              LET p == outputs_[o].cur_input
                  t == inputs_[p].switch_to_input
              IN  /\ outputs_'[o].cur_input = t
                  /\ t \notin ready_priority_' \cup unscheduled_priority_'
                  /\ inputs_'[t].blocked_time = 0
                  /\ ~inputs_'[t].unscheduled
                  /\ inputs_'[p].switch_to_input = INVALID_INPUT_ORDINAL
                  /\ outputs_'[o].stats["DIRECT_SWITCH_SUCCESSES"]
                         = outputs_[o].stats["DIRECT_SWITCH_SUCCESSES"] + 1]_vars

\* An output runs the target of a direct switch that was taken out of the
\* ready queue before its blocked time had passed, while an input that was
\* inserted ahead of it is still waiting there.
DirectSwitchTaken ==
    \E o \in Outputs :
        /\ outputs_[o].stats["DIRECT_SWITCH_SUCCESSES"] = 1
        /\ outputs_[o].cur_input = 0
        /\ outputs_[o].prev_input = 1
        /\ inputs_[0].blocked_start_time > 0
        /\ outputs_[o].cur_time < inputs_[0].blocked_start_time + 2
        /\ 2 \in ready_priority_
        /\ hist.inserted[2] < hist.inserted[0]

\* The target of the switch that the input of output o asks for runs on
\* another output.
TargetRunsElsewhere(o) ==
    LET t == inputs_[outputs_[o].cur_input].switch_to_input IN
    /\ t \notin ready_priority_ \cup unscheduled_priority_
    /\ \E other \in Outputs \ {o} : outputs_[other].cur_input = t

NextCandidate(i) ==
    IF inputs_[i].queue # <<>> THEN Head(inputs_[i].queue)
    ELSE IF ReaderAtEnd(readers[i], NextPos(i)) THEN InvalidRecord
    ELSE readers[i].recs[NextPos(i)]

\* The next next_record() call on output o processes a marker of one of the
\* kinds of its input.
AtMarker(o, kinds) ==
    LET p == outputs_[o].cur_input IN
    /\ ToAny
    /\ options_.honor_direct_switches
    /\ outputs_[o].active /\ ~outputs_[o].waiting
    /\ outputs_[o].speculation_stack = <<>>
    /\ p \in Inputs
    /\ NextCandidate(p).k \in kinds

\* C27 as stated: a schedule request for a target whose unscheduled flag is set
\* clears the flag and leaves the target in the ready queue with blocked_time
\* 0; a request for any other target sets its skip_next_unscheduled, and the
\* next unschedule or direct-switch marker of an input with that flag clears
\* the flag and does not unschedule the input, while one of an input
\* without the flag unschedules it.
ScheduleRequest ==
    [][\A o \in Outputs :
          /\ (NextRecordStep(o) /\ AtMarker(o, {"schedule"})) =>
                 LET t == tid2input(NextCandidate(outputs_[o].cur_input).v)
                 IN  t \in Inputs =>
                       IF inputs_[t].unscheduled
                       THEN /\ ~inputs_'[t].unscheduled
                            /\ t \in ready_priority_'
                            /\ inputs_'[t].blocked_time = 0
                       ELSE inputs_'[t].skip_next_unscheduled
          /\ (NextRecordStep(o) /\ AtMarker(o, {"unschedule", "direct_switch"})) =>
                 LET p == outputs_[o].cur_input
                 IN  IF inputs_[p].skip_next_unscheduled
                     THEN /\ ~inputs_'[p].skip_next_unscheduled
                          /\ inputs_'[p].unscheduled = inputs_[p].unscheduled
                          /\ inputs_'[p].blocked_time = inputs_[p].blocked_time
                     ELSE inputs_'[p].unscheduled]_vars

\* C27: a schedule request for a target whose unscheduled flag is set clears
\* the flag; a target that waits in a queue is then in the ready queue with
\* blocked_time 0, and a target that is still the input of an output stays
\* there.  A request for any other target sets its skip_next_unscheduled, and
\* the next unschedule or direct-switch marker of an input with that flag
\* clears the flag and does not unschedule the input, while one of an input
\* without the flag unschedules it.
ScheduleRequestQueued ==
    [][\A o \in Outputs :
          /\ (NextRecordStep(o) /\ AtMarker(o, {"schedule"})) =>
                 LET t == tid2input(NextCandidate(outputs_[o].cur_input).v)
                 IN  t \in Inputs =>
                       IF inputs_[t].unscheduled
                       THEN /\ ~inputs_'[t].unscheduled
                            /\ IF t \in ready_priority_ \cup unscheduled_priority_
                               THEN /\ t \in ready_priority_'
                                    /\ inputs_'[t].blocked_time = 0
                               ELSE /\ t \notin ready_priority_'
                                    /\ \A r \in Outputs :
                                           outputs_[r].cur_input = t
                                               => outputs_'[r].cur_input = t
                       ELSE inputs_'[t].skip_next_unscheduled
          /\ (NextRecordStep(o) /\ AtMarker(o, {"unschedule", "direct_switch"})) =>
                 LET p == outputs_[o].cur_input
                 IN  IF inputs_[p].skip_next_unscheduled
                     THEN /\ ~inputs_'[p].skip_next_unscheduled
                          /\ inputs_'[p].unscheduled = inputs_[p].unscheduled
                          /\ inputs_'[p].blocked_time = inputs_[p].blocked_time
                     ELSE inputs_'[p].unscheduled]_vars

\* Input 0 asked twice for input 1 to be scheduled before input 1 came to its
\* first unschedule marker: that marker was skipped and the second one
\* unscheduled it.
ScheduledTwiceUnscheduledOnce ==
    /\ Len(readers[1].recs) = 7
    /\ readers[1].recs[6].k = "unschedule"
    /\ hist.got[0] = <<1, 2, 3, 4, 5>>
    /\ hist.got[1] = <<1, 2, 3, 4, 5, 6>>
    /\ hist.delivered[0][5].k = "schedule"
    /\ inputs_[1].unscheduled
    /\ ~inputs_[1].skip_next_unscheduled

\* ------------------------------------------------------------------------
\* Kernel context switch sequences.  The kernel switch reader holds one
\* sequence for a switch between threads and one for a switch between
\* processes; inputs 0 and 1 are threads of one workload and input 2 belongs
\* to another.
\* ------------------------------------------------------------------------
KernelSwitchReader ==
    <<CONTEXT_SWITCH_START(SWITCH_THREAD), INSTR, CONTEXT_SWITCH_END(SWITCH_THREAD),
      CONTEXT_SWITCH_START(SWITCH_PROCESS), INSTR, CONTEXT_SWITCH_END(SWITCH_PROCESS)>>

InjectOptions == [DefaultOptions EXCEPT !.kernel_switch_reader = KernelSwitchReader]

\* The readers of traces, each in the workload given for it.
WorkloadReaders(traces, workloads) ==
    Fn0([i \in 1 .. Len(traces) |->
            [Reader(traces[i]) EXCEPT !.workload = workloads[i]]])

\* Three compute-only threads of two workloads.
WorkloadTraces == <<<<INSTR, INSTR, INSTR>>, <<INSTR, INSTR, INSTR>>, <<INSTR, INSTR>>>>

\* A thread that blocks in a system call while the other finishes, so that
\* the output idles before the first one comes back.
IdleBetweenTraces ==
    <<<<INSTR, TS(1), SYSCALL, MAYBE_BLOCKING, TS(3), INSTR, INSTR>>,
      <<INSTR, INSTR>>>>

InjectScenarios ==
    {[opt |-> [InjectOptions EXCEPT !.output_count = n],
      rds |-> WorkloadReaders(WorkloadTraces, <<0, 0, 1>>)] : n \in {1, 2}}
    \cup {[opt |-> InjectOptions,
           rds |-> WorkloadReaders(IdleBetweenTraces, <<0, w>>)] : w \in {0, 1}}
    \cup {[opt |-> [InjectOptions EXCEPT !.quantum_unit = "QUANTUM_TIME",
                                         !.quantum_duration_us = 1],
           rds |-> WorkloadReaders(QuantumTraces, <<0, 0>>)]}
    \cup {[opt |-> [InjectOptions EXCEPT !.output_count = 2],
           rds |-> WorkloadReaders(SwitchToUnscheduledTraces, <<0, 0, 1>>)]}

InjectInit == \E sc \in InjectScenarios : InitWith(sc)

InjectNext ==
    \/ \E o \in Outputs : NextRecord(o)
    \/ Tick

InjectSpec == InjectInit /\ [][InjectNext]_vars

\* The sequence configured for a switch from input p to input n: that of a
\* process switch when the two are of different workloads, and that of a
\* thread switch otherwise.
SwitchSequenceOf(p, n) ==
    switch_sequence_(State)[IF readers[p].workload # readers[n].workload
                            THEN SWITCH_PROCESS ELSE SWITCH_THREAD]

\* C30: after an output that has delivered an instruction switches from an
\* input p to another input n, with or without an idle period in between,
\* the records delivered next from n are the records of the switch sequence
\* configured for p and n, in their order and as records of n, ahead of every
\* buffered or reader record of n.
ContextSwitchInjected ==
    \A n \in Inputs : \A k \in 1 .. Len(hist.switched_in[n]) :
        LET sw == hist.switched_in[n][k]
            sequence == SwitchSequenceOf(sw.prev, n)
        IN  \A j \in 1 .. Len(sequence) :
                sw.at + j <= Len(hist.delivered[n]) =>
                    hist.delivered[n][sw.at + j]
                        = [k |-> sequence[j].k, v |-> sequence[j].v, ord |-> 0]

\* ------------------------------------------------------------------------
\* Going back to the prior input.
\* ------------------------------------------------------------------------
\* The checks that the next next_record() call on output o, made now, runs
\* on the candidate record of its input.
CandidateChecks(o) ==
    LET i == outputs_[o].cur_input
        s1 == [State EXCEPT !.outputs_[o].cur_time = wall_clock,
                            !.inputs_[i].prev_time_in_quantum =
                                IF @ = 0 THEN wall_clock ELSE @]
        c == ReadCandidate(s1, o, i)
    IN  ToAnyChecks(c.s, o, i, c.record, wall_clock)

\* The next next_record() call on output o asks for a switch away from its
\* input, which is not at its end, and passes no blocked time.
SwitchRequestedUnblocked(o) ==
    LET i == outputs_[o].cur_input IN
    /\ ToAny
    /\ outputs_[o].active /\ ~outputs_[o].waiting
    /\ outputs_[o].speculation_stack = <<>>
    /\ i \in Inputs
    /\ ~inputs_[i].at_eof
    /\ NextCandidate(i) # InvalidRecord
    /\ CandidateChecks(o).need_new_input
    /\ ~CandidateChecks(o).invalid
    /\ CandidateChecks(o).blocked_time = 0

\* The candidate record of input i with its position.
CandidateOf(i) ==
    [k |-> NextCandidate(i).k, v |-> NextCandidate(i).v,
     ord |-> IF inputs_[i].queue # <<>> THEN Head(inputs_[i].queue).ord ELSE NextPos(i)]

\* The next_record() call on output o went back to the input: the output
\* keeps it, the call delivers its candidate record, the input's queue holds
\* what it held behind the candidate, and one switch-nop and no other
\* switch is counted.
WentBack(o) ==
    LET i == outputs_[o].cur_input IN
    /\ outputs_'[o].cur_input = i
    /\ hist'.status[o] = "OK"
    /\ hist'.delivered[i] = Append(hist.delivered[i], CandidateOf(i))
    /\ hist'.log[o] = Append(hist.log[o], <<i, CandidateOf(i).ord>>)
    /\ inputs_'[i].queue =
           IF inputs_[i].queue # <<>> THEN Tail(inputs_[i].queue) ELSE <<>>
    /\ outputs_'[o].stats["SWITCH_NOP"] = outputs_[o].stats["SWITCH_NOP"] + 1
    /\ \A name \in {"SWITCH_INPUT_TO_INPUT", "SWITCH_INPUT_TO_IDLE",
                    "SWITCH_IDLE_TO_INPUT"} :
           outputs_'[o].stats[name] = outputs_[o].stats[name]

\* C28 as stated: when next_record() asks for a switch with no blocked time
\* while the ready queue is empty and the current input is not at its end,
\* the output keeps its cur_input, the candidate record that was pushed back
\* is the record the call delivers, nothing else leaves or enters the
\* input's queue (no switch sequence is injected), and exactly one
\* switch-nop is counted.
SwitchNopWhenQueueEmpty ==
    [][\A o \in Outputs :
          (/\ NextRecordStep(o)
           /\ SwitchRequestedUnblocked(o)
           /\ ready_priority_ = {}) =>
              WentBack(o)]_vars

\* C28: when next_record() asks for a switch with no blocked time while the
\* ready queue is empty, the current input is not at its end and it has no
\* pending direct switch to an input of the unscheduled queue, the output
\* keeps its cur_input, the candidate record that was pushed back is the
\* record the call delivers, nothing else leaves or enters the input's queue
\* (no switch sequence is injected), and exactly one switch-nop is counted.
GoBackToPrior ==
    [][\A o \in Outputs :
          (/\ NextRecordStep(o)
           /\ SwitchRequestedUnblocked(o)
           /\ ready_priority_ = {}
           /\ inputs_[outputs_[o].cur_input].switch_to_input
                  \notin unscheduled_priority_) =>
              WentBack(o)]_vars

\* An output that has switched to its input with a switch sequence went
\* back to it when the quantum of the input ended with nothing in the ready
\* queue, and has delivered the instruction that ended the quantum.
WentBackToPrior ==
    \E o \in Outputs :
        LET i == outputs_[o].cur_input IN
        /\ i \in Inputs
        /\ options_.kernel_switch_reader # <<>>
        /\ Len(hist.switched_in[i]) = 1
        /\ outputs_[o].stats["SWITCH_NOP"] = 1
        /\ hist.run[o].nop
        /\ ready_priority_ = {}
        /\ inputs_[i].queue = <<>>
        /\ ~inputs_[i].at_eof
        /\ outputs_[o].last_record.k = "instr"
        /\ outputs_[o].last_record.ord > 0

\* ------------------------------------------------------------------------
\* Migrations.
\* ------------------------------------------------------------------------
\* The inputs that the next_record() step installs on output o after they
\* last ran on another output: set_cur_input() alone writes prev_output.
MigratedTo(o) ==
    {m \in Inputs : /\ inputs_'[m].prev_output = o
                    /\ inputs_[m].prev_output \notin {INVALID_OUTPUT_ORDINAL, o}}

\* C29: a next_record() call on output o adds to o's migration counter one
\* for each input it installs as cur_input that last ran on a different
\* output, and nothing for an input that runs for the first time or that
\* last ran on o, whether the input comes from the ready queue or from a
\* direct switch.
MigrationsCounted ==
    [][\A o \in Outputs :
          NextRecordStep(o) =>
              outputs_'[o].stats["MIGRATIONS"]
                  = outputs_[o].stats["MIGRATIONS"] + Cardinality(MigratedTo(o))]_vars

\* ------------------------------------------------------------------------
\* Waiting in a replay.  A recording over two outputs moves three threads
\* between the outputs at the ends of their quanta; the replay interleaves
\* the outputs freely, so that an output reaches a segment before the other
\* output has brought the input of the segment to its start.
\* ------------------------------------------------------------------------
WaitScenarios ==
    {[opt |-> [DefaultOptions EXCEPT !.schedule_record_ostream = TRUE,
                                     !.output_count = 2],
      rds |-> BoundReaders(traces, <<>>)]
        : traces \in {LoneBlockingTraces, ThreeTraces}}

WaitInit == \E sc \in WaitScenarios : InitWith(sc)

\* The scheduler replays a schedule it recorded.
Replaying == options_.mapping = "MAP_AS_PREVIOUSLY" /\ hist.phase = "replay"

\* The clock moves freely up to MaxTime while the schedule is recorded and
\* while a replaying output has been told to wait; otherwise it moves when
\* every output waits for it.
WaitTick ==
    /\ wall_clock < FairTimeLimit
    /\ \/ /\ wall_clock < MaxTime
          /\ ~Replaying \/ \E o \in Outputs : hist.status[o] = "WAIT"
       \/ /\ \A o \in Outputs : ~MayCall(o)
          /\ ~AllEOF
    /\ wall_clock' = wall_clock + 1
    /\ UNCHANGED <<options_, readers, inputs_, outputs_, ready_priority_,
                   unscheduled_priority_, ready_counter_, unscheduled_counter_,
                   num_blocked_, live_input_count_, live_replay_output_count_, hist,
                   calls>>

WaitNext ==
    \/ \E o \in Outputs : NextRecord(o)
    \/ WaitTick
    \/ StartReplay

WaitSpec ==
    /\ WaitInit
    /\ [][WaitNext]_vars
    /\ \A o \in 0 .. (NumOutputs - 1) : WF_calls(Called(o))
    /\ WF_wall_clock(WaitTick)

\* The segment after the current one of output o.
NextSegment(o) == RecordAt(State, o, outputs_[o].record_index + 1)

\* The next next_record() call on output o looks for the input of its next
\* segment: the output waits for an input, or its input is at the end of
\* its trace or of the current segment.
AtSegmentEnd(o) ==
    LET i == outputs_[o].cur_input IN
    /\ Replaying
    /\ outputs_[o].active
    /\ outputs_[o].record_index + 1 < Len(outputs_[o].record)
    /\ \/ outputs_[o].waiting /\ outputs_[o].wait_start_time = 0
       \/ /\ ~outputs_[o].waiting
          /\ i \in Inputs
          /\ \/ NextCandidate(i) = InvalidRecord
             \/ LET c == ReadCandidate(State, o, i)
                IN  AsPreviouslyChecks(c.s, o, i, c.record).need_new_input

\* The input of the next segment of output o is behind the start of the
\* segment, and the segment is one that is waited for.
BehindNextSegment(o) ==
    LET segment == NextSegment(o) IN
    /\ segment.type \notin {"IDLE", "SYNTHETIC_END"}
    /\ segment.start > 1
    /\ get_instr_ordinal(State, segment.input) < segment.start
    /\ \/ outputs_[o].record_index = -1
       \/ RecordAt(State, o, outputs_[o].record_index).type # "SKIP"

\* An output that reaches a segment whose input is behind the start of the
\* segment gives up its input and returns STATUS_WAIT; it delivers nothing
\* and stays before the segment.
ReplayWaits ==
    [][\A o \in Outputs :
          (NextRecordStep(o) /\ AtSegmentEnd(o) /\ BehindNextSegment(o)) =>
              /\ hist'.status[o] = "WAIT"
              /\ outputs_'[o].cur_input = INVALID_INPUT_ORDINAL
              /\ outputs_'[o].waiting
              /\ outputs_'[o].record_index = outputs_[o].record_index
              /\ hist'.log[o] = hist.log[o]]_vars

\* A replaying next_record() call on output o delivers the first record of
\* a segment.
StartsSegment(o) ==
    /\ Replaying
    /\ NextRecordStep(o)
    /\ hist'.log[o] # hist.log[o]
    /\ outputs_'[o].record_index \in 0 .. (Len(outputs_[o].record) - 1)
    /\ \/ outputs_'[o].record_index # outputs_[o].record_index
       \/ hist.log[o] = <<>>

\* An output delivers the first record of a segment of input i that starts
\* at instruction s > 1 only when the instruction ordinal of i is at least s.
SegmentStartsReached ==
    [][\A o \in Outputs :
          StartsSegment(o) =>
              LET segment == RecordAt(State, o, outputs_'[o].record_index)
              IN  (segment.type = "DEFAULT" /\ segment.start > 1) =>
                      get_instr_ordinal(State, segment.input) >= segment.start]_vars

\* Under fair calls of every output the replay reaches the end of every
\* output.
ReplayEnds == Replaying ~> (Replaying /\ AllEOF)

\* C31: in a replay, an output whose next segment names input i with a start
\* instruction s > 1 does not start delivering from i while the instruction
\* ordinal of i is below s: it gives up its input and returns STATUS_WAIT,
\* and goes on at a later call once the other output has brought i to s, so
\* that under fair calls of all outputs the replay of a recorded schedule
\* reaches the end of every output.
ReplayWaitsForSegmentStart ==
    /\ SegmentStartsReached
    /\ ReplayWaits
    /\ ReplayEnds

\* ------------------------------------------------------------------------
\* The regions of interest that init() accepts.  A scheduler is built over
\* one thread whose modifiers carry a list of ranges; init() either builds
\* the scheduler or returns an error and builds nothing.
\* ------------------------------------------------------------------------
\* The check init() makes of the ranges of a thread's modifiers, from
\* range i on.
RECURSIVE CheckRegionsOfInterest(_, _)
CheckRegionsOfInterest(regions_of_interest, i) ==
    IF i > Len(regions_of_interest) THEN "STATUS_SUCCESS"
    ELSE LET range == regions_of_interest[i] IN
         IF \/ range.start = 0
            \/ range.stop < range.start /\ range.stop # 0
         THEN "STATUS_ERROR_INVALID_PARAMETER"
         ELSE IF i > 1 /\ range.start <= regions_of_interest[i - 1].stop
         THEN "STATUS_ERROR_INVALID_PARAMETER"
         ELSE CheckRegionsOfInterest(regions_of_interest, i + 1)

\* The status init() returns for the thread modifiers of the readers.
init_status(opt, rds) ==
    IF \A i \in DOMAIN rds :
           CheckRegionsOfInterest(rds[i].regions_of_interest, 1) = "STATUS_SUCCESS"
    THEN "STATUS_SUCCESS"
    ELSE "STATUS_ERROR_INVALID_PARAMETER"

\* The lists of at most MaxRanges ranges with ordinals up to MaxOrdinal.
MaxRanges == 2
MaxOrdinal == 3

RangeLists ==
    UNION {[1 .. n -> {Range(a, b) : a \in 0 .. MaxOrdinal, b \in 0 .. MaxOrdinal}]
              : n \in 0 .. MaxRanges}

\* A thread of MaxOrdinal + 2 instructions.
ModifierTrace == [j \in 1 .. (MaxOrdinal + 2) |-> INSTR]

\* Before init(): the options and the readers are given and no scheduler
\* state exists.
ModifierInit ==
    /\ \E regions \in RangeLists :
           readers = WithRegions(Fn0(<<Reader(ModifierTrace)>>), 0, regions)
    /\ options_ = DefaultOptions
    /\ inputs_ = <<>>
    /\ outputs_ = <<>>
    /\ ready_priority_ = {}
    /\ unscheduled_priority_ = {}
    /\ ready_counter_ = 0
    /\ unscheduled_counter_ = 0
    /\ num_blocked_ = 0
    /\ live_input_count_ = 0
    /\ live_replay_output_count_ = 0
    /\ wall_clock = 1
    /\ hist = [NewHistory(DefaultOptions, readers) EXCEPT !.phase = "config"]
    /\ calls = <<>>

\* init() is called: it checks the modifiers and builds the scheduler.
InitCall ==
    /\ hist.phase = "config"
    /\ LET status == init_status(options_, readers) IN
       IF status = "STATUS_SUCCESS"
       THEN Let(init(options_, readers, <<>>), LAMBDA s :
               /\ Becomes(s)
               /\ hist' = NoteCall(s.hist, "init", 0, status, InvalidRecord)
               /\ calls' = [o \in DOMAIN s.outputs_ |-> 0])
       ELSE /\ hist' = NoteCall([hist EXCEPT !.phase = "error"], "init", 0, status,
                                InvalidRecord)
            /\ UNCHANGED <<options_, inputs_, outputs_, ready_priority_,
                           unscheduled_priority_, ready_counter_, unscheduled_counter_,
                           num_blocked_, live_input_count_, live_replay_output_count_,
                           calls>>
    /\ UNCHANGED <<readers, wall_clock>>

ModifierNext == InitCall

ModifierSpec == ModifierInit /\ [][ModifierNext]_vars

\* The ranges start at 1 or later, each range but the first starts past the
\* stop of the range before it, and no range follows one that runs to the
\* end of the trace (stop 0).
OrderedWithGaps(regions_of_interest) ==
    \A k \in 1 .. Len(regions_of_interest) :
        /\ regions_of_interest[k].start >= 1
        /\ k > 1 => /\ regions_of_interest[k - 1].stop # 0
                    /\ regions_of_interest[k].start
                           >= regions_of_interest[k - 1].stop + 1

\* C32: init() accepts the regions of interest of a thread only if every
\* range starts at instruction 1 or later, each range starts at least one
\* instruction past the stop of the range before it, and no range follows a
\* range whose stop is 0; for every other list it returns
\* STATUS_ERROR_INVALID_PARAMETER.
RegionsOfInterestChecked ==
    hist.api.op = "init" =>
        \A i \in Inputs :
            /\ hist.api.status = "STATUS_SUCCESS"
                   => OrderedWithGaps(readers[i].regions_of_interest)
            /\ ~OrderedWithGaps(readers[i].regions_of_interest)
                   => hist.api.status = "STATUS_ERROR_INVALID_PARAMETER"

\* ------------------------------------------------------------------------
\* The as-traced schedule.  read_traced_schedule() gathers for each input
\* the entries of the cpu schedule file that name it, repairs start
\* ordinals that were written modulo the chunk size, and drops the older of
\* two entries of an input that start at the same instruction.
\* ------------------------------------------------------------------------
DEFAULT_CHUNK_SIZE == 10 * 1000 * 1000

\* The arrangements of the entries that std::sort may leave: ordered by
\* timestamp, entries of one timestamp in any order.
SortedByTimestamp(entries) ==
    {[k \in 1 .. Len(entries) |-> entries[p[k]]] :
        p \in {q \in [1 .. Len(entries) -> 1 .. Len(entries)] :
                  /\ \A a, b \in 1 .. Len(entries) : a # b => q[a] # q[b]
                  /\ \A a, b \in 1 .. Len(entries) :
                         a < b => entries[q[a]].timestamp <= entries[q[b]].timestamp}}

\* The loop of check_and_fix_modulo_problem_in_schedule() over the sorted
\* entries of one input, from entry k on.
RECURSIVE FixModuloFrom(_, _, _, _, _)
FixModuloFrom(sched, k, prev_start, add_to_start, timestamp2adjust) ==
    IF k > Len(sched) THEN [status |-> "STATUS_SUCCESS", sched |-> sched]
    ELSE Let(IF sched[k].start_instruction < prev_start
             THEN IF prev_start * 2 > DEFAULT_CHUNK_SIZE
                  THEN [ok |-> TRUE, add |-> add_to_start + DEFAULT_CHUNK_SIZE]
                  ELSE [ok |-> FALSE, add |-> add_to_start]
             ELSE [ok |-> TRUE, add |-> add_to_start],
             LAMBDA d :
            IF ~d.ok \/ sched[k].timestamp \in timestamp2adjust
            THEN [status |-> "STATUS_ERROR_INVALID_PARAMETER", sched |-> sched]
            ELSE FixModuloFrom(
                     [sched EXCEPT ![k].start_instruction = @ + d.add],
                     k + 1, sched[k].start_instruction, d.add,
                     timestamp2adjust \cup {sched[k].timestamp}))

\* check_and_fix_modulo_problem_in_schedule() on the sorted entries of one
\* input.  When a start was repaired the segments of the outputs are
\* updated, under the assertion that each repaired start is the start as
\* read modulo the chunk size; a build with assertions stops there.
check_and_fix_modulo_problem_in_schedule(opt, sorted) ==
    Let(FixModuloFrom(sorted, 1, 0, 0, {}), LAMBDA r :
       IF /\ r.status = "STATUS_SUCCESS"
          /\ r.sched # sorted
          /\ opt.assertions
          /\ \E k \in 1 .. Len(sorted) :
                 r.sched[k].start_instruction % DEFAULT_CHUNK_SIZE
                     # sorted[k].start_instruction
       THEN [status |-> "ABORTED", sched |-> sorted]
       ELSE r)

\* The loop of remove_zero_instruction_segments() over the sorted entries of
\* one input: in order tells whether the assertion start >= prev_start held.
RECURSIVE RemoveZeroFrom(_, _, _, _)
RemoveZeroFrom(sched, k, prev_start, in_order) ==
    IF k > Len(sched) THEN [in_order |-> in_order, sched |-> sched]
    ELSE RemoveZeroFrom(
             IF k > 1 /\ sched[k].start_instruction = prev_start
             THEN [sched EXCEPT ![k - 1].valid = FALSE] ELSE sched,
             k + 1, sched[k].start_instruction,
             in_order /\ sched[k].start_instruction >= prev_start)

\* remove_zero_instruction_segments() on the sorted entries of one input; a
\* build with assertions stops at a decreasing start.
remove_zero_instruction_segments(opt, sorted) ==
    Let(RemoveZeroFrom(sorted, 1, 0, TRUE), LAMBDA r :
       IF ~r.in_order /\ opt.assertions
       THEN [status |-> "ABORTED", sched |-> sorted]
       ELSE [status |-> "STATUS_SUCCESS", sched |-> r.sched])

\* The schedule files tried: at most MaxEntries entries of one input, with
\* timestamps up to MaxEntries and starts around the half and the whole of
\* the chunk size.
MaxEntries == 3

StartValues ==
    {0, 1, DEFAULT_CHUNK_SIZE \div 2, DEFAULT_CHUNK_SIZE \div 2 + 1,
     DEFAULT_CHUNK_SIZE - 1, 2 * DEFAULT_CHUNK_SIZE + 1}

TracedSchedules ==
    UNION {[1 .. n -> {[timestamp |-> t, start_instruction |-> start, valid |-> TRUE]
                          : t \in 1 .. MaxEntries, start \in StartValues}]
              : n \in 1 .. MaxEntries}

TracedInit ==
    /\ readers = Fn0(<<Reader(<<INSTR>>)>>)
    /\ \E asserts \in BOOLEAN : options_ = [DefaultOptions EXCEPT !.assertions = asserts]
    /\ inputs_ = <<>>
    /\ outputs_ = <<>>
    /\ ready_priority_ = {}
    /\ unscheduled_priority_ = {}
    /\ ready_counter_ = 0
    /\ unscheduled_counter_ = 0
    /\ num_blocked_ = 0
    /\ live_input_count_ = 0
    /\ live_replay_output_count_ = 0
    /\ wall_clock = 1
    /\ \E entries \in TracedSchedules :
           hist = [phase |-> "read", status |-> "NONE", as_read |-> entries,
                   sorted |-> entries, input_sched |-> entries]
    /\ calls = <<>>

Unscheduled ==
    UNCHANGED <<options_, readers, inputs_, outputs_, ready_priority_,
                unscheduled_priority_, ready_counter_, unscheduled_counter_,
                num_blocked_, live_input_count_, live_replay_output_count_,
                wall_clock, calls>>

\* read_traced_schedule() calls check_and_fix_modulo_problem_in_schedule().
CheckAndFix ==
    /\ hist.phase = "read"
    /\ \E sorted \in SortedByTimestamp(hist.input_sched) :
           Let(check_and_fix_modulo_problem_in_schedule(options_, sorted), LAMBDA r :
              hist' = [hist EXCEPT !.phase = "fixed", !.status = r.status,
                                   !.sorted = sorted, !.input_sched = r.sched])
    /\ Unscheduled

\* read_traced_schedule() goes on to remove_zero_instruction_segments() when
\* the repair succeeded.
RemoveZero ==
    /\ hist.phase = "fixed"
    /\ hist.status = "STATUS_SUCCESS"
    /\ \E sorted \in SortedByTimestamp(hist.input_sched) :
           Let(remove_zero_instruction_segments(options_, sorted), LAMBDA r :
              hist' = [hist EXCEPT !.phase = "done", !.status = r.status,
                                   !.input_sched = r.sched])
    /\ Unscheduled

TracedNext == CheckAndFix \/ RemoveZero

TracedSpec == TracedInit /\ [][TracedNext]_vars

\* The start ordinals of the entries.
StartsOf(sched) == [k \in 1 .. Len(sched) |-> sched[k].start_instruction]

\* The entries, in timestamp order, hold a decrease of the start ordinals
\* after a start of at most half the chunk size.
DecreaseFarFromChunkEnd(sorted) ==
    \E k \in 2 .. Len(sorted) :
        /\ sorted[k].start_instruction < sorted[k - 1].start_instruction
        /\ sorted[k - 1].start_instruction * 2 <= DEFAULT_CHUNK_SIZE

\* C33: check_and_fix_modulo_problem_in_schedule() either returns an error
\* or leaves the start ordinals of each input non-decreasing in timestamp
\* order, the condition remove_zero_instruction_segments() asserts; it adds
\* whole chunk sizes only, and a decrease after a start of at most half the
\* chunk size gives STATUS_ERROR_INVALID_PARAMETER.
TracedScheduleRepaired ==
    /\ (hist.phase = "fixed" /\ hist.status = "STATUS_SUCCESS") =>
           /\ NonDecreasing(StartsOf(hist.input_sched))
           /\ \A k \in 1 .. Len(hist.sorted) :
                  /\ hist.input_sched[k].start_instruction
                         >= hist.sorted[k].start_instruction
                  /\ (hist.input_sched[k].start_instruction
                         - hist.sorted[k].start_instruction) % DEFAULT_CHUNK_SIZE = 0
    /\ (hist.phase = "fixed" /\ DecreaseFarFromChunkEnd(hist.sorted)) =>
           hist.status = "STATUS_ERROR_INVALID_PARAMETER"
    /\ hist.phase \in {"fixed", "done"} => hist.status # "ABORTED"

\* A schedule whose starts were all written modulo the chunk size is left
\* non-decreasing by a successful repair.
RepairsModuloSchedules ==
    (hist.phase = "fixed" /\ hist.status # "STATUS_ERROR_INVALID_PARAMETER"
       /\ \A k \in 1 .. Len(hist.sorted) : hist.sorted[k].start_instruction < DEFAULT_CHUNK_SIZE) =>
           /\ hist.status = "STATUS_SUCCESS"
           /\ NonDecreasing(StartsOf(hist.input_sched))

\* The repair adds whole chunk sizes only and refuses a decrease after a
\* start of at most half the chunk size.
RepairRule ==
    /\ (hist.phase = "fixed" /\ hist.status = "STATUS_SUCCESS") =>
           /\ \A k \in 1 .. Len(hist.sorted) :
                  /\ hist.input_sched[k].start_instruction
                         >= hist.sorted[k].start_instruction
                  /\ (hist.input_sched[k].start_instruction
                         - hist.sorted[k].start_instruction) % DEFAULT_CHUNK_SIZE = 0
    /\ (hist.phase = "fixed" /\ DecreaseFarFromChunkEnd(hist.sorted)) =>
           hist.status = "STATUS_ERROR_INVALID_PARAMETER"

\* ------------------------------------------------------------------------
\* The queue of an input across skips.  Regions of interest on a thread that
\* is preempted and switched back in with a kernel context switch sequence.
\* ------------------------------------------------------------------------
ClearTraces ==
    <<<<MARKER, INSTR, INSTR, INSTR, INSTR, INSTR, INSTR, INSTR>>, <<INSTR, INSTR, INSTR>>>>

ClearScenarios ==
    {[opt |-> [InjectOptions EXCEPT !.quantum_unit = unit, !.quantum_duration_us = 1,
                                    !.quantum_duration_instrs = quantum,
                                    !.assertions = asserts],
      rds |-> WithRegions(WorkloadReaders(ClearTraces, <<0, w>>), 0, regions)]
        : unit \in {"QUANTUM_TIME", "QUANTUM_INSTRUCTIONS"}, quantum \in {1, 2},
          asserts \in BOOLEAN, w \in {0, 1},
          regions \in {<<Range(2, 3), Range(5, 6)>>, <<Range(1, 2), Range(4, 0)>>,
                       <<Range(2, 2), Range(4, 4), Range(6, 0)>>, <<Range(3, 0)>>}}

ClearInit == \E sc \in ClearScenarios : InitWith(sc)

ClearNext ==
    \/ \E o \in Outputs : NextRecord(o)
    \/ Tick

ClearSpec == ClearInit /\ [][ClearNext]_vars

\* The queue of each input holds no instruction behind its front.
QueueInstrOnlyAtFront ==
    \A i \in DOMAIN inputs_ :
        \A k \in 2 .. Len(inputs_[i].queue) : ~record_type_is_instr(inputs_[i].queue[k])

\* No skip has cleared a queue against the assertions of
\* skip_instructions() and clear_input_queue().
NothingDropped == \A i \in DOMAIN hist.dropped : ~hist.dropped[i]

\* C34: the queue of an input holds at most one instruction, at its front,
\* and every other queued record is a marker or header, so that a skip
\* clears no instruction but the single candidate, also after a context
\* switch sequence was injected into the queue.
QueueHoldsOneCandidate == QueueInstrOnlyAtFront /\ NothingDropped

\* ------------------------------------------------------------------------
\* The threads of the simulator, one per output, each inside its own
\* next_record() or set_active(), with the locks they take: sched_lock_ and
\* the lock of each input.  A step is what a thread does between two lock
\* acquisitions, each of which may have to wait.  Here inputs_[i].lock is
\* the output whose thread holds the lock of input i, hist.sched_lock the
\* one that holds sched_lock_, hist.thread[o] the position and the locals of
\* the thread of output o.  The traces hold instructions only; whether an
\* instruction ends a quantum, and which ready input is popped, is open.
\* ------------------------------------------------------------------------
NO_THREAD == INVALID_OUTPUT_ORDINAL

\* A segment of a schedule to replay: input, first instruction, and the
\* instruction it stops before.
Segment(input, start_instruction, stop_instruction) ==
    [input |-> input, start |-> start_instruction, stop |-> stop_instruction]

\* The instances: three threads scheduled onto two outputs, one thread for
\* two outputs, and two ways to replay two threads on two outputs: each
\* output runs its own thread and then the other's, or only the first
\* output takes over the other thread.
ThreadScenarios ==
    {[opt |-> [DefaultOptions EXCEPT !.output_count = 2],
      rds |-> Fn0(<<Reader(<<INSTR>>)>>),
      cur |-> Fn0(<<0, INVALID_INPUT_ORDINAL>>), ready |-> {},
      record |-> Fn0(<<<<>>, <<>>>>)]}
    \cup
    {[opt |-> [DefaultOptions EXCEPT !.output_count = 2],
      rds |-> Fn0(<<Reader(<<INSTR, INSTR>>), Reader(<<INSTR, INSTR>>), Reader(<<INSTR>>)>>),
      cur |-> Fn0(<<0, 1>>), ready |-> {2}, record |-> Fn0(<<<<>>, <<>>>>)]}
    \cup
    {[opt |-> [DefaultOptions EXCEPT !.output_count = 2, !.mapping = "MAP_AS_PREVIOUSLY"],
      rds |-> Fn0(<<Reader(<<INSTR, INSTR, INSTR>>), Reader(<<INSTR, INSTR, INSTR>>)>>),
      cur |-> Fn0(<<0, 1>>), ready |-> {}, record |-> Fn0(record)]
        : record \in {<<<<Segment(0, 0, 2), Segment(1, 2, 100)>>,
                        <<Segment(1, 0, 2), Segment(0, 2, 100)>>>>,
                      <<<<Segment(0, 0, 100), Segment(1, 2, 100)>>,
                        <<Segment(1, 0, 2)>>>>}}

\* A thread outside next_record() and set_active().
Outside ==
    [pc |-> "out", prev_input |-> INVALID_INPUT_ORDINAL, index |-> INVALID_INPUT_ORDINAL,
     from |-> "out", res |-> "OK", from_queue |-> FALSE, target |-> INVALID_INPUT_ORDINAL]

\* The thread with the locals that are dead at its position cleared.
Live(thread) ==
    LET keeps(field, pcs) == IF thread.pc \in pcs THEN thread[field] ELSE Outside[field] IN
    [pc |-> thread.pc,
     prev_input |-> keeps("prev_input", {"pick", "choose", "check", "set_cur_input",
                                          "picked", "lock_prev", "lock_next"}),
     index |-> keeps("index", {"check", "set_cur_input"}),
     from |-> keeps("from", {"pick", "choose", "check", "set_cur_input", "picked"}),
     res |-> keeps("res", {"picked", "lock_prev"}),
     from_queue |-> keeps("from_queue", {"decide", "decided"}) /\ ~ToAny,
     target |-> keeps("target", {"resume", "resume_target"})]

ThreadInit ==
    \E sc \in ThreadScenarios :
        /\ options_ = sc.opt
        /\ readers = sc.rds
        /\ inputs_ = [i \in DOMAIN sc.rds |->
                         [lock |-> NO_THREAD, pos |-> 0, at_eof |-> FALSE, queue |-> <<>>]]
        /\ outputs_ = [o \in DOMAIN sc.cur |->
                          [cur_input |-> sc.cur[o],
                           active |-> TRUE, waiting |-> FALSE, at_eof |-> FALSE,
                           record |-> sc.record[o], record_index |-> 0]]
        /\ ready_priority_ = sc.ready
        /\ unscheduled_priority_ = {}
        /\ ready_counter_ = 0
        /\ unscheduled_counter_ = 0
        /\ num_blocked_ = 0
        /\ live_input_count_ = Cardinality(DOMAIN sc.rds)
        /\ live_replay_output_count_ = Cardinality(DOMAIN sc.cur)
        /\ wall_clock = 1
        /\ hist = [thread |-> [o \in DOMAIN sc.cur |-> Outside],
                   sched_lock |-> NO_THREAD]
        /\ calls = <<>>

\* What the threads leave alone.
ThreadFrame ==
    UNCHANGED <<options_, readers, unscheduled_priority_, ready_counter_,
                unscheduled_counter_, num_blocked_, wall_clock, calls>>

\* The thread of output o.
Thread(o) == hist.thread[o]

\* The thread of output o goes on at pc.
At(o, pc) == [Thread(o) EXCEPT !.pc = pc]

\* A step of the thread of output o: the inputs, the outputs, the ready
\* queue, the holder of sched_lock_ and the thread after it.
ThreadStep(o, inputs, outputs, ready, sched_lock, thread) ==
    /\ inputs_' = inputs
    /\ outputs_' = outputs
    /\ ready_priority_' = ready
    /\ live_input_count_' = Cardinality({i \in DOMAIN inputs : ~inputs[i].at_eof})
    /\ live_replay_output_count_' = Cardinality({p \in DOMAIN outputs : ~outputs[p].at_eof})
    /\ hist' = [hist EXCEPT
                   !.thread[o] = Live(thread),
                   !.sched_lock = sched_lock]
    /\ ThreadFrame

\* The queues and the output after set_cur_input(output, input), whose
\* caller holds sched_lock_: the input given up goes to the ready queue
\* under MAP_TO_ANY_OUTPUT unless it is at its end.
SetCurInput(outputs, ready, o, input) ==
    LET prev_input == outputs[o].cur_input IN
    [outputs |-> [outputs EXCEPT ![o].cur_input = input],
     ready |-> IF /\ prev_input >= 0
                  /\ ToAny
                  /\ prev_input # input
                  /\ ~inputs_[prev_input].at_eof
               THEN ready \cup {prev_input} ELSE ready]

\* eof_or_idle() with sched_lock_ held: EOF when no input is live, or in
\* replay when every output is through its schedule; otherwise the output
\* waits without an input.
EofOrIdle(outputs, ready, o) ==
    IF \/ live_input_count_ = 0
       \/ /\ ~ToAny
          /\ \A p \in DOMAIN outputs : outputs[p].at_eof
    THEN [outputs |-> outputs, ready |-> ready, res |-> "EOF"]
    ELSE Let(SetCurInput([outputs EXCEPT ![o].waiting = TRUE], ready, o,
                         INVALID_INPUT_ORDINAL),
             LAMBDA r : [outputs |-> r.outputs, ready |-> r.ready, res |-> "IDLE"])

\* The head of next_record(): an inactive output is told IDLE, a waiting one
\* asks for an input, one without an input goes to eof_or_idle(), and any
\* other goes for the lock of its input.
ThreadCall(o) ==
    /\ Thread(o).pc = "out"
    /\ IF ~outputs_[o].active
       THEN UNCHANGED <<inputs_, outputs_, ready_priority_, live_input_count_,
                        live_replay_output_count_, hist>> /\ ThreadFrame
       ELSE ThreadStep(o, inputs_, outputs_, ready_priority_, hist.sched_lock,
                       IF outputs_[o].waiting
                       THEN [Thread(o) EXCEPT !.pc = "pick", !.from = "wait"]
                       ELSE IF outputs_[o].cur_input < 0
                       THEN At(o, "eof_or_idle")
                       ELSE At(o, "lock_input"))

\* eof_or_idle() from the head of next_record(): it takes sched_lock_.
ThreadEofOrIdle(o) ==
    /\ Thread(o).pc = "eof_or_idle"
    /\ hist.sched_lock = NO_THREAD
    /\ Let(EofOrIdle(outputs_, ready_priority_, o), LAMBDA r :
          ThreadStep(o, inputs_, r.outputs, r.ready, NO_THREAD,
                     At(o, "out")))

\* next_record() locks the input of its output.
ThreadLockInput(o) ==
    /\ Thread(o).pc = "lock_input"
    /\ inputs_[outputs_[o].cur_input].lock = NO_THREAD
    /\ ThreadStep(o, [inputs_ EXCEPT ![outputs_[o].cur_input].lock = o], outputs_,
                  ready_priority_, hist.sched_lock, At(o, "read"))

\* With the lock of its input next_record() takes the next record, from the
\* queue or from the reader; at the end of the reader it marks the input,
\* unlocks it and asks for another.
ThreadRead(o) ==
    /\ Thread(o).pc = "read"
    /\ LET input == outputs_[o].cur_input IN
       IF inputs_[input].queue # <<>>
       THEN ThreadStep(o, [inputs_ EXCEPT ![input].queue = Tail(@)], outputs_,
                       ready_priority_, hist.sched_lock,
                       [Thread(o) EXCEPT !.pc = "decide", !.from_queue = TRUE])
       ELSE IF inputs_[input].at_eof \/ inputs_[input].pos >= Len(readers[input].recs)
       THEN ThreadStep(o, [inputs_ EXCEPT ![input].at_eof = TRUE,
                                          ![input].lock = NO_THREAD],
                       outputs_, ready_priority_, hist.sched_lock,
                       [Thread(o) EXCEPT !.pc = "pick", !.from = "eof"])
       ELSE ThreadStep(o, [inputs_ EXCEPT ![input].pos = @ + 1], outputs_,
                       ready_priority_, hist.sched_lock,
                       [Thread(o) EXCEPT !.pc = "decide", !.from_queue = FALSE])

\* Whether next_record() in replay is at the end of the segment of output o.
AtStop(o) ==
    LET segment == outputs_[o].record[outputs_[o].record_index + 1] IN
    /\ inputs_[outputs_[o].cur_input].pos >= segment.stop
    /\ ~Thread(o).from_queue

\* With the record in hand next_record() either passes it on, or queues it
\* as the candidate, unlocks the input and asks for another input: in replay
\* at the end of the segment, otherwise wherever a quantum may end.  Under
\* MAP_TO_ANY_OUTPUT the record may first ask to resume another thread.
ThreadDecide(o) ==
    /\ Thread(o).pc \in {"decide", "decided"}
    /\ LET input == outputs_[o].cur_input IN
       \/ /\ IF ToAny THEN Thread(o).pc = "decided" \/ ready_priority_ # {} ELSE AtStop(o)
          /\ ThreadStep(o, [inputs_ EXCEPT ![input].queue = Append(@, INSTR),
                                           ![input].lock = NO_THREAD],
                        outputs_, ready_priority_, hist.sched_lock,
                        [Thread(o) EXCEPT !.pc = "pick", !.from = "switch",
                                          !.prev_input = input])
       \/ /\ ToAny => Thread(o).pc = "decided" \/ ready_priority_ = {}
          /\ ~ToAny => ~AtStop(o)
          /\ ThreadStep(o, [inputs_ EXCEPT ![input].lock = NO_THREAD], outputs_,
                        ready_priority_, hist.sched_lock, At(o, "out"))
       \/ /\ ToAny
          /\ Thread(o).pc = "decide"
          /\ \E target \in DOMAIN inputs_ \ {input} :
                 ThreadStep(o, [inputs_ EXCEPT ![input].lock = NO_THREAD], outputs_,
                            ready_priority_, hist.sched_lock,
                            [Thread(o) EXCEPT !.pc = "resume", !.target = target])

\* The _SYSCALL_SCHEDULE marker: with its input unlocked the thread takes
\* sched_lock_, then the lock of the target, lets both go and locks its
\* input again.
ThreadResume(o) ==
    \/ /\ Thread(o).pc = "resume"
       /\ hist.sched_lock = NO_THREAD
       /\ ThreadStep(o, inputs_, outputs_, ready_priority_, o, At(o, "resume_target"))
    \/ /\ Thread(o).pc = "resume_target"
       /\ inputs_[Thread(o).target].lock = NO_THREAD
       /\ ThreadStep(o, inputs_, outputs_, ready_priority_, NO_THREAD, At(o, "relock"))
    \/ /\ Thread(o).pc = "relock"
       /\ inputs_[outputs_[o].cur_input].lock = NO_THREAD
       /\ ThreadStep(o, [inputs_ EXCEPT ![outputs_[o].cur_input].lock = o], outputs_,
                     ready_priority_, hist.sched_lock, At(o, "decided"))

\* pick_next_input() takes sched_lock_.
ThreadPick(o) ==
    /\ Thread(o).pc = "pick"
    /\ hist.sched_lock = NO_THREAD
    /\ ThreadStep(o, inputs_, outputs_, ready_priority_, o,
                  [Thread(o) EXCEPT !.pc = "choose", !.index = INVALID_INPUT_ORDINAL,
                                    !.prev_input = outputs_[o].cur_input])

\* pick_next_input() returns res with sched_lock_ released.
PickReturns(o, outputs, ready, res) ==
    ThreadStep(o, inputs_, outputs, ready, NO_THREAD,
               [Thread(o) EXCEPT !.pc = "picked", !.res = res])

\* A slip in pick_next_input(): the input popped stays in the ready queue.
ThreadChooseKeepsReady(o) ==
    /\ Thread(o).pc = "choose"
    /\ ToAny
    /\ LET prev_index == Thread(o).prev_input IN
       IF ready_priority_ = {}
       THEN IF prev_index = INVALID_INPUT_ORDINAL
            THEN Let(EofOrIdle(outputs_, ready_priority_, o), LAMBDA r :
                    PickReturns(o, r.outputs, r.ready, r.res))
            ELSE /\ inputs_[prev_index].lock = NO_THREAD
                 /\ IF inputs_[prev_index].at_eof
                    THEN Let(EofOrIdle(outputs_, ready_priority_, o), LAMBDA r :
                            PickReturns(o, r.outputs, r.ready, r.res))
                    ELSE ThreadStep(o, inputs_, outputs_, ready_priority_, o,
                                    [Thread(o) EXCEPT !.pc = "check",
                                                      !.index = prev_index])
       ELSE Let(SetCurInput(outputs_, ready_priority_, o, INVALID_INPUT_ORDINAL),
                LAMBDA r :
               \/ \E index \in r.ready :
                      ThreadStep(o, inputs_, r.outputs, r.ready, o,
                                 [Thread(o) EXCEPT !.pc = "check", !.index = index])
               \/ PickReturns(o, [r.outputs EXCEPT ![o].waiting = TRUE], r.ready,
                              "IDLE"))

\* The choice of pick_next_input() under MAP_TO_ANY_OUTPUT: with an empty
\* ready queue the prior input again unless it is at its end, which is read
\* under its lock; otherwise the output gives up its input and pops one of
\* the ready queue, or is told IDLE when those are blocked.
ThreadChoose(o) ==
    /\ Thread(o).pc = "choose"
    /\ ToAny
    /\ LET prev_index == Thread(o).prev_input IN
       IF ready_priority_ = {}
       THEN IF prev_index = INVALID_INPUT_ORDINAL
            THEN Let(EofOrIdle(outputs_, ready_priority_, o), LAMBDA r :
                    PickReturns(o, r.outputs, r.ready, r.res))
            ELSE /\ inputs_[prev_index].lock = NO_THREAD
                 /\ IF inputs_[prev_index].at_eof
                    THEN Let(EofOrIdle(outputs_, ready_priority_, o), LAMBDA r :
                            PickReturns(o, r.outputs, r.ready, r.res))
                    ELSE ThreadStep(o, inputs_, outputs_, ready_priority_, o,
                                    [Thread(o) EXCEPT !.pc = "check",
                                                      !.index = prev_index])
       ELSE Let(SetCurInput(outputs_, ready_priority_, o, INVALID_INPUT_ORDINAL),
                LAMBDA r :
               \/ \E index \in r.ready :
                      ThreadStep(o, inputs_, r.outputs, r.ready \ {index}, o,
                                 [Thread(o) EXCEPT !.pc = "check", !.index = index])
               \/ PickReturns(o, [r.outputs EXCEPT ![o].waiting = TRUE], r.ready,
                              "IDLE"))

\* The choice of pick_next_input_as_previously(): the input of the next
\* segment of the output, once that input, read under its lock, has reached
\* the start of the segment; until then the output waits.
ThreadChooseAsPreviously(o) ==
    /\ Thread(o).pc = "choose"
    /\ ~ToAny
    /\ IF outputs_[o].record_index + 1 >= Len(outputs_[o].record)
       THEN Let(EofOrIdle([outputs_ EXCEPT ![o].at_eof = TRUE], ready_priority_, o),
                LAMBDA r : PickReturns(o, r.outputs, r.ready, r.res))
       ELSE LET segment == outputs_[o].record[outputs_[o].record_index + 2] IN
            /\ inputs_[segment.input].lock = NO_THREAD
            /\ IF inputs_[segment.input].pos < segment.start /\ segment.start > 1
               THEN Let(SetCurInput([outputs_ EXCEPT ![o].waiting = TRUE],
                                    ready_priority_, o, INVALID_INPUT_ORDINAL),
                        LAMBDA r : PickReturns(o, r.outputs, r.ready, "WAIT"))
               ELSE ThreadStep(o, inputs_,
                               [outputs_ EXCEPT ![o].record_index = @ + 1],
                               ready_priority_, o,
                               [Thread(o) EXCEPT !.pc = "check",
                                                 !.index = segment.input])

\* pick_next_input() looks at the input it chose, under its lock: one at its
\* end sends it back to choose.
ThreadCheck(o) ==
    /\ Thread(o).pc = "check"
    /\ inputs_[Thread(o).index].lock = NO_THREAD
    /\ ThreadStep(o, inputs_, outputs_, ready_priority_, o,
                  IF inputs_[Thread(o).index].at_eof
                  THEN [Thread(o) EXCEPT !.pc = "choose", !.index = INVALID_INPUT_ORDINAL]
                  ELSE At(o, "set_cur_input"))

\* pick_next_input() ends with set_cur_input(), which takes the lock of the
\* new input, and returns.
ThreadSetCurInput(o) ==
    /\ Thread(o).pc = "set_cur_input"
    /\ inputs_[Thread(o).index].lock = NO_THREAD
    /\ Let(SetCurInput(outputs_, ready_priority_, o, Thread(o).index), LAMBDA r :
          ThreadStep(o, inputs_, r.outputs, r.ready, NO_THREAD,
                     [Thread(o) EXCEPT !.pc = "picked", !.res = "OK"]))

\* next_record() after pick_next_input(): a waiting output, and one whose
\* input ended, return or go for the lock of the new input; one that asked
\* to switch goes for the lock of the input it had.
ThreadPicked(o) ==
    /\ Thread(o).pc = "picked"
    /\ LET res == Thread(o).res IN
       IF Thread(o).from = "switch"
       THEN ThreadStep(o, inputs_, outputs_, ready_priority_, hist.sched_lock,
                       IF res \notin {"OK", "WAIT"} THEN At(o, "out")
                       ELSE IF outputs_[o].cur_input # Thread(o).prev_input
                       THEN At(o, "lock_prev")
                       ELSE At(o, "lock_same"))
       ELSE IF res # "OK"
       THEN ThreadStep(o, inputs_, outputs_, ready_priority_, hist.sched_lock,
                       At(o, "out"))
       ELSE ThreadStep(o, inputs_,
                       IF Thread(o).from = "wait"
                       THEN [outputs_ EXCEPT ![o].waiting = FALSE] ELSE outputs_,
                       ready_priority_, hist.sched_lock,
                       IF outputs_[o].cur_input < 0 THEN At(o, "eof_or_idle")
                       ELSE At(o, "lock_input"))

\* After a switch next_record() locks the input it had again, to set its
\* quantum right, and returns when the output has to wait.
ThreadLockPrev(o) ==
    /\ Thread(o).pc = "lock_prev"
    /\ inputs_[Thread(o).prev_input].lock = NO_THREAD
    /\ IF Thread(o).res = "WAIT"
       THEN ThreadStep(o, inputs_, outputs_, ready_priority_, hist.sched_lock,
                       At(o, "out"))
       ELSE ThreadStep(o, [inputs_ EXCEPT ![Thread(o).prev_input].lock = o], outputs_,
                       ready_priority_, hist.sched_lock, At(o, "lock_next"))

\* It then constructs the lock of the new input and assigns it to the
\* variable that holds the lock of the old one: the old lock is released
\* once the new one is held.
ThreadLockNext(o) ==
    /\ Thread(o).pc = "lock_next"
    /\ inputs_[outputs_[o].cur_input].lock = NO_THREAD
    /\ ThreadStep(o, [inputs_ EXCEPT ![outputs_[o].cur_input].lock = o,
                                     ![Thread(o).prev_input].lock = NO_THREAD],
                  outputs_, ready_priority_, hist.sched_lock, At(o, "read"))

\* When the output kept its input next_record() locks it again, takes the
\* candidate back from the queue and passes it on.
ThreadLockSame(o) ==
    \/ /\ Thread(o).pc = "lock_same"
       /\ inputs_[outputs_[o].cur_input].lock = NO_THREAD
       /\ ThreadStep(o, [inputs_ EXCEPT ![outputs_[o].cur_input].lock = o,
                                        ![outputs_[o].cur_input].queue =
                                            SubSeq(@, 1, Len(@) - 1)],
                     outputs_, ready_priority_, hist.sched_lock, At(o, "pass_on"))
    \/ /\ Thread(o).pc = "pass_on"
       /\ ThreadStep(o, [inputs_ EXCEPT ![outputs_[o].cur_input].lock = NO_THREAD],
                     outputs_, ready_priority_, hist.sched_lock, At(o, "out"))

\* set_active() of the thread of output o, between its calls of
\* next_record(), on an output that has an input when it is deactivated:
\* the flag is set at once and the rest is done under sched_lock_.
ThreadSetActive(o) ==
    \/ /\ Thread(o).pc = "out"
       /\ ToAny
       /\ \E active \in BOOLEAN :
             /\ active # outputs_[o].active
             /\ active \/ outputs_[o].cur_input # INVALID_INPUT_ORDINAL
             /\ ThreadStep(o, inputs_, [outputs_ EXCEPT ![o].active = active],
                           ready_priority_, hist.sched_lock, At(o, "set_active"))
    \/ /\ Thread(o).pc = "set_active"
       /\ hist.sched_lock = NO_THREAD
       /\ IF outputs_[o].active
          THEN ThreadStep(o, inputs_, [outputs_ EXCEPT ![o].waiting = TRUE],
                          ready_priority_, NO_THREAD, At(o, "out"))
          ELSE Let(SetCurInput(outputs_, ready_priority_, o, INVALID_INPUT_ORDINAL),
                   LAMBDA r :
                  ThreadStep(o, inputs_, r.outputs, r.ready, NO_THREAD, At(o, "out")))

ThreadNext ==
    \/ \E o \in Outputs : ThreadCall(o)
    \/ \E o \in Outputs : ThreadEofOrIdle(o)
    \/ \E o \in Outputs : ThreadLockInput(o)
    \/ \E o \in Outputs : ThreadRead(o)
    \/ \E o \in Outputs : ThreadDecide(o)
    \/ \E o \in Outputs : ThreadResume(o)
    \/ \E o \in Outputs : ThreadPick(o)
    \/ \E o \in Outputs : ThreadChoose(o)
    \/ \E o \in Outputs : ThreadChooseAsPreviously(o)
    \/ \E o \in Outputs : ThreadCheck(o)
    \/ \E o \in Outputs : ThreadSetCurInput(o)
    \/ \E o \in Outputs : ThreadPicked(o)
    \/ \E o \in Outputs : ThreadLockPrev(o)
    \/ \E o \in Outputs : ThreadLockNext(o)
    \/ \E o \in Outputs : ThreadLockSame(o)
    \/ \E o \in Outputs : ThreadSetActive(o)

ThreadSpec == ThreadInit /\ [][ThreadNext]_vars

\* The thread of output o is using the reader and the queue of the input of
\* its output.
Reading(o) == Thread(o).pc \in {"read", "decide", "decided", "pass_on"}

\* C35: under MAP_TO_ANY_OUTPUT, however the threads of the outputs
\* interleave in next_record() and set_active(), no input is the cur_input of
\* two outputs, and no two threads are reading the same input: a thread
\* that reads an input holds its lock.
InputsMutuallyExcluded ==
    ToAny =>
        /\ \A o, p \in Outputs :
               (o # p /\ outputs_[o].cur_input # INVALID_INPUT_ORDINAL)
                   => outputs_[o].cur_input # outputs_[p].cur_input
        /\ \A o \in Outputs : Reading(o) => inputs_[outputs_[o].cur_input].lock = o
        /\ \A o, p \in Outputs :
               (o # p /\ Reading(o) /\ Reading(p))
                   => outputs_[o].cur_input # outputs_[p].cur_input

\* An output was deactivated, and the thread of another output is reading
\* the input it gave up.
ReadingInputOfInactive ==
    /\ ToAny
    /\ \E o, p \in Outputs :
          /\ ~outputs_[p].active /\ Thread(p).pc = "out"
          /\ Reading(o) /\ outputs_[o].cur_input = p

\* The input whose lock the thread of output o is about to take, if any.
WantsInput(o) ==
    LET pc == Thread(o).pc IN
    IF pc \in {"lock_input", "lock_next", "lock_same", "relock"} THEN outputs_[o].cur_input
    ELSE IF pc \in {"check", "set_cur_input"} THEN Thread(o).index
    ELSE IF pc = "lock_prev" THEN Thread(o).prev_input
    ELSE IF pc = "resume_target" THEN Thread(o).target
    ELSE IF pc = "choose" /\ ToAny /\ ready_priority_ = {} THEN Thread(o).prev_input
    ELSE IF pc = "choose" /\ ~ToAny
            /\ outputs_[o].record_index + 1 < Len(outputs_[o].record)
    THEN outputs_[o].record[outputs_[o].record_index + 2].input
    ELSE INVALID_INPUT_ORDINAL

\* The thread that holds the lock the thread of output o is about to take.
WaitsFor(o) ==
    IF Thread(o).pc \in {"pick", "eof_or_idle", "resume", "set_active"}
    THEN hist.sched_lock
    ELSE IF WantsInput(o) # INVALID_INPUT_ORDINAL THEN inputs_[WantsInput(o)].lock
    ELSE NO_THREAD

\* C36: no set of threads is such that each of them waits for a lock that
\* another of them holds, under MAP_TO_ANY_OUTPUT and MAP_AS_PREVIOUSLY.
DeadlockFree ==
    \A waiting \in SUBSET Outputs \ {{}} : \E o \in waiting : WaitsFor(o) \notin waiting

\* The same under MAP_TO_ANY_OUTPUT alone.
DeadlockFreeToAny == ToAny => DeadlockFree

\* A thread that resumes another thread, or that picks an input, waits for
\* a lock that the thread of another output holds.
WaitingForAnother ==
    \E o \in Outputs :
        /\ Thread(o).pc \in {"resume_target", "check", "set_cur_input"}
        /\ WaitsFor(o) \in Outputs \ {o}

\* ------------------------------------------------------------------------
\* Waiting in the ready queue.
\* ------------------------------------------------------------------------
\* Three compute-only threads of equal priority, bound to no output, that
\* outlast several quanta.
StarveTraces ==
    <<<<INSTR, INSTR, INSTR, INSTR, INSTR>>, <<INSTR, INSTR, INSTR, INSTR, INSTR>>,
      <<INSTR, INSTR, INSTR, INSTR, INSTR>>>>

StarveInputs == DOMAIN Fn0(StarveTraces)

\* MAP_TO_ANY_OUTPUT with instruction quanta of one and of two instructions,
\* on one output and on two.
StarveScenarios ==
    {[opt |-> [DefaultOptions EXCEPT !.output_count = c[1],
                                     !.quantum_duration_instrs = c[2]],
      rds |-> Fn0([i \in 1 .. Len(StarveTraces) |-> Reader(StarveTraces[i])])]
        : c \in {1, 2} \X {1, 2}}

StarveInit == \E sc \in StarveScenarios : InitWith(sc)

\* Instruction quanta do not look at the time: the clock moves when every
\* output has called at the current time and waits for it.
StarveTick ==
    /\ wall_clock < FairTimeLimit
    /\ \A o \in Outputs : ~MayCall(o)
    /\ ~AllEOF
    /\ wall_clock' = wall_clock + 1
    /\ UNCHANGED <<options_, readers, inputs_, outputs_, ready_priority_,
                   unscheduled_priority_, ready_counter_, unscheduled_counter_,
                   num_blocked_, live_input_count_, live_replay_output_count_, hist,
                   calls>>

StarveNext ==
    \/ \E o \in Outputs : NextRecord(o)
    \/ StarveTick

\* Every output keeps calling next_record().
StarveSpec ==
    /\ StarveInit
    /\ [][StarveNext]_vars
    /\ \A o \in 0 .. (NumOutputs - 1) : WF_calls(Called(o))
    /\ WF_wall_clock(StarveTick)

\* Input i is in the ready queue and not blocked.
WaitsUnblocked(i) ==
    /\ i \in Inputs
    /\ ToAny /\ options_.quantum_unit = "QUANTUM_INSTRUCTIONS"
    /\ i \in ready_priority_
    /\ inputs_[i].blocked_time = 0

\* Input i is the current input of an output.
Installed(i) == \E o \in Outputs : outputs_[o].cur_input = i

\* The number of times input j entered the ready queue after position k of
\* the insertions.
InsertedSince(j, k) ==
    Cardinality({n \in (k + 1) .. Len(hist.insertions) : hist.insertions[n] = j})

\* While an input waits unblocked no other input comes back into the ready
\* queue a second time: none is scheduled twice ahead of it.
NotOvertaken ==
    \A i \in Inputs : WaitsUnblocked(i) =>
        \A j \in Inputs \ {i} : InsertedSince(j, hist.inserted[i]) <= 1

DeactivateWithoutInput(s, output, fault) ==
    Let([s EXCEPT !.outputs_[output].active = FALSE], LAMBDA s1 :
       IF fault
       THEN [s |-> [s1 EXCEPT !.hist.status[output] = "ABORTED"], status |-> "ABORTED"]
       ELSE [s |-> set_cur_input(s1, output, INVALID_INPUT_ORDINAL), status |-> "OK"])

\* A thread of the simulator calls set_active(false) on output o, which is
\* active and has no input.
SetActiveNoInput(o) ==
    /\ hist.api.n < MaxCalls
    /\ \A p \in Outputs : hist.status[p] # "ABORTED"
    /\ options_.mapping = "MAP_TO_ANY_OUTPUT"
    /\ outputs_[o].active
    /\ outputs_[o].cur_input = INVALID_INPUT_ORDINAL
    /\ \E fault \in BOOLEAN :
          Let(DeactivateWithoutInput(State, o, fault), LAMBDA r :
             /\ Becomes(r.s)
             /\ hist' = NoteCall(r.s.hist, "deactivate", o, r.status, InvalidRecord))
    /\ UNCHANGED <<readers, wall_clock, calls>>

\* Two threads on two outputs and one thread on two outputs.
IdleScenarios ==
    Scenario(DefaultOptions, QuantumTraces, {2})
    \cup Scenario(DefaultOptions, LoneBlockingTraces, {2})

IdleInit == \E sc \in IdleScenarios : InitWith(sc)

IdleNext ==
    \/ \E o \in Outputs : NextRecord(o)
    \/ Tick
    \/ \E o \in Outputs : \E active \in BOOLEAN : SetActive(o, active)
    \/ \E o \in Outputs : SetActiveNoInput(o)

IdleSpec == IdleInit /\ [][IdleNext]_vars

\* The step is a call of set_active(false) on an active output without an
\* input.
DeactivatesWithoutInput ==
    /\ hist'.api.n # hist.api.n
    /\ hist'.api.op = "deactivate"
    /\ ToAny
    /\ outputs_[hist'.api.output].active
    /\ outputs_[hist'.api.output].cur_input = INVALID_INPUT_ORDINAL

\* C38: set_active(false) on an output that has no input returns STATUS_OK
\* and leaves the inputs, the ready queue and the unscheduled queue as they
\* were.
DeactivateWithoutInputHarmless ==
    [][DeactivatesWithoutInput =>
           /\ hist'.api.status = "OK"
           /\ UNCHANGED <<inputs_, ready_priority_, unscheduled_priority_>>]_vars

\* When the call returns, it has returned STATUS_OK and has left the inputs
\* and the queues alone.
DeactivateWithoutInputQuiet ==
    [][(DeactivatesWithoutInput /\ hist'.api.status # "ABORTED") =>
           /\ hist'.api.status = "OK"
           /\ ~outputs_'[hist'.api.output].active
           /\ UNCHANGED <<inputs_, ready_priority_, unscheduled_priority_>>]_vars

\* An output that went idle, or that was deactivated and activated again,
\* is active without an input.
ActiveWithoutInput ==
    \E o \in Outputs :
        /\ ToAny /\ outputs_[o].active
        /\ outputs_[o].cur_input = INVALID_INPUT_ORDINAL
        /\ hist.status[o] = "IDLE" \/ hist.api.op = "activate"

\* ------------------------------------------------------------------------
\* The count of blocked inputs.
\* ------------------------------------------------------------------------
\* The inputs of the ready queue that are blocked.
BlockedInReadyQueue == {i \in ready_priority_ : inputs_[i].blocked_time > 0}

\* C39: under MAP_TO_ANY_OUTPUT num_blocked_ is the number of inputs of the
\* ready queue whose blocked_time is above zero, so that
\* pop_from_ready_queue(), called by an output at the present time, has read
\* a time above zero whenever the queue holds a blocked input.
NumBlockedExact ==
    ToAny =>
        /\ num_blocked_ = Cardinality(BlockedInReadyQueue)
        /\ \A o \in Outputs :
               BlockedInReadyQueue # {} =>
                   (IF AtCall(o).num_blocked_ > 0
                    THEN get_output_time(AtCall(o), o) ELSE 0) > 0

\* pop_from_ready_queue() met a blocked input, passed it over and put it
\* back into the ready queue.
BlockedPassedOver ==
    /\ ToAny /\ num_blocked_ = 1
    /\ \E i \in BlockedInReadyQueue : InsertedSince(i, 0) >= 2

\* ------------------------------------------------------------------------
\* The instruction quantum across switches that are not preempts.
\* ------------------------------------------------------------------------
\* A thread whose blocking system call is followed by the kernel's trace of
\* it, beside a thread with a blocking system call and no kernel trace.
KernelTraces ==
    <<<<INSTR, TS(1), SYSCALL, MAYBE_BLOCKING, TS(3), SYSCALL_TRACE_START, INSTR,
        SYSCALL_TRACE_END, INSTR>>,
      <<INSTR, TS(1), SYSCALL, MAYBE_BLOCKING, TS(3), INSTR, INSTR>>>>

\* Instruction quanta on one output: the threads with a kernel trace, with
\* and without an injected context switch sequence, and two threads that
\* block without one.
OffsetScenarios ==
    Scenario(DefaultOptions, KernelTraces, {1})
    \cup Scenario(InjectOptions, KernelTraces, {1})
    \cup Scenario(DefaultOptions, BlockingTraces, {1})

OffsetInit == \E sc \in OffsetScenarios : InitWith(sc)

OffsetNext ==
    \/ \E o \in Outputs : NextRecord(o)
    \/ Tick
    \/ \E o \in Outputs : Unread(o)

OffsetSpec == OffsetInit /\ [][OffsetNext]_vars

\* C40: when next_record() decrements instrs_in_quantum of the outgoing input
\* after a switch that is not a preempt, under MAP_TO_ANY_OUTPUT with
\* instruction quanta, the counter is above zero, also for a switch decided
\* in kernel code and after unread_last_record().
OffsetFindsCounterPositive ==
    (ToAny /\ options_.quantum_unit = "QUANTUM_INSTRUCTIONS") => ~hist.offset_at_zero

\* The counter never wraps: it stays within the quantum.
CounterWithinQuantum ==
    (ToAny /\ options_.quantum_unit = "QUANTUM_INSTRUCTIONS") =>
        \A i \in Inputs :
            inputs_[i].instrs_in_quantum <= options_.quantum_duration_instrs

====
